---- MODULE Spec2Model ----
\* Settlement flow of the NGO voucher backend: deposit / withdraw / redeem
\* handlers, the wallet helpers they call and the XRPL submission wrappers.
\*
\* Units.  Amounts of the router deployment (api/src) are USD in mills
\* (1/1000 USD, so one cent is 10 mills); the body's amount is a float and may
\* carry sub-cent digits.  Amounts of the monolith (src/src/app.py) are
\* amount_minor integers.  Ledger balances are XRP drops.  Float rounding of
\* Python's binary floats is not modelled: arithmetic is exact.
EXTENDS Integers, Naturals, Sequences, FiniteSets, TLC

\* ---------------------------------------------------------------- bounds
NumProcs == 2        \* concurrent request workers
MaxRequests == 3     \* requests started in one behaviour
MaxCents == 2        \* largest requested amount, in cents
PollLimit == 1       \* Tx polls that fit in submit_and_wait_compat's deadline
FundDrops == 6431    \* drops the NGO and hot wallets start with (2 cents' worth)
MaxPriceMills == 7   \* largest of the small configured prices, in mills
MaxUsdMills == 25    \* largest usd argument of a conversion, in mills
MaxDropsIn == 12     \* largest free drops argument of xrp_drops_to_usd
MaxQuoteMinor == 5   \* largest small amount_minor of a quote
MaxDonation == 2      \* largest donation, in cents
TickSeconds == 150   \* seconds the clock advances in one step
MaxTime == 300       \* last clock value
MaxIssued == 2       \* challenges issued
MaxConfirms == 2     \* wallet-link confirms
MaxFaces == 3        \* face_enroll calls
MaxPromotes == 3     \* face_promote calls
MaxCalls == 4        \* get_face_app calls
MaxWallets == 3      \* wallets generated
MaxMeCalls == 3      \* get_current_account calls
VcTickSeconds == 60  \* seconds the credential clock advances per step
MaxVcTime == 180     \* last instant of the credential clock, in seconds
MaxVcs == 2          \* credentials issued
MaxVerifies == 3     \* verify_vc calls

\* ------------------------------------------------------- program constants
PriceMills == 3110          \* XRPL_USD_RATE = 3.11 USD per XRP, in mills
DROPS_PER_XRP == 1000000
MillsPerCent == 10
BUCKET_SECONDS == 300
SECRET_KEY == "dev-secret"

Procs == 1..NumProcs
Recipients == {"r1", "r2"}
\* the authenticated NGO of every request; recipient r2 belongs to another NGO
NGOs == {"ngoA"}
HotAddress == "hot"
Addresses == Recipients \cup NGOs \cup {HotAddress}

\* recipients.ngo_id of each stored recipient row
OwnerOf(r) == IF r = "r1" THEN "ngoA" ELSE "ngoB"

\* the recipient_id values of requests: the stored recipients and an id with
\* no row
RecipientIds == Recipients \cup {"r0"}

\* body.amount values a client may send: negative, zero, and 1..MaxCents cents
Amounts == {-MillsPerCent, 0} \cup {c * MillsPerCent : c \in 1..MaxCents}
\* body.amount is a float: values with sub-cent digits, half a cent above
\* 0..MaxCents-1 cents
SubCentAmounts == {c * MillsPerCent + MillsPerCent \div 2 : c \in 0..(MaxCents - 1)}
MinorAmounts == 0..MaxCents
Currencies == {"USD", "EUR"}

VARIABLES
    balance,        \* recipients.balance, the stored off-ledger balance (mills)
    amountMinor,    \* recipient_balances.amount_minor of the monolith
    amountNull,     \* TRUE when that amount_minor column holds NULL
    ledger,         \* on-ledger XRP balance of every address (drops)
    payouts,        \* payouts table (settlement records), in insertion order
    moves,          \* xrpl_movements table (movement records), in insertion order
    expenses,       \* number of rows of the monolith's expenses table
    req,            \* per worker: the request being handled and its locals
    nreq,           \* requests started so far
    nextTx,         \* next transaction hash the ledger hands out
    net,            \* per recipient: deposits minus withdrawals whose transfer succeeded
    hasSubmitAndWait, \* hasattr(xrpl_tx, "submit_and_wait") of the installed library
    price,          \* XRPL_USD_RATE, the configured USD price of one XRP (mills)
    amounts,        \* the body.amount values clients send (mills)
    conv,           \* the last call of a conversion or quote function and its result
    lifetime_donations, \* accounts.lifetime_donations of every NGO account (cents)
    donation,       \* per worker: the donation request being handled
    wallet,         \* the last call of a wallet-record helper and its result
    link,           \* wallet-link challenges issued, the clock, and the wallets table
    resp,           \* the last response of an account or recipient endpoint
    face,           \* face_maps and pending_face_maps tables and the promote requests
    faceapp,        \* the module globals of core/face.py and the get_face_app callers
    acct,           \* wallet columns of the account and recipient rows
    vc              \* issued credentials, the revocation table, the last verification

\* the state of the helpers and handlers outside the settlement flow
laterVars == <<link, resp, face, faceapp, acct, vc>>

otherVars == <<conv, lifetime_donations, donation, wallet, laterVars>>

\* the state of the settlement flow
settleVars == <<balance, amountMinor, amountNull, ledger, payouts, moves,
                expenses, req, nreq, nextTx, net, hasSubmitAndWait, price,
                amounts>>

vars == <<balance, amountMinor, amountNull, ledger, payouts, moves, expenses,
          req, nreq, nextTx, net, hasSubmitAndWait, price, amounts, conv,
          lifetime_donations, donation, wallet, link, resp, face, faceapp,
          acct, vc>>

\* ------------------------------------------------------------ conversions
\* get_xrp_usd_price: Decimal(str(XRPL_USD_RATE))
get_xrp_usd_price == price

\* the result of a conversion that raised ValueError
ValueError == -1

\* a usd_to_xrp_drops that rounds the drops up
usd_to_xrp_drops_ceil(mills) ==
    IF mills <= 0 THEN ValueError
    ELSE (mills * DROPS_PER_XRP + get_xrp_usd_price - 1) \div get_xrp_usd_price

\* usd_to_xrp_drops: usd <= 0 raises ValueError; otherwise (usd / price)
\* quantized ROUND_DOWN to 6 places, times 10^6, ROUND_DOWN to an integer
usd_to_xrp_drops(mills) ==
    IF mills <= 0 THEN ValueError
    ELSE (mills * DROPS_PER_XRP) \div get_xrp_usd_price

\* an xrp_drops_to_usd that rounds the cents up
xrp_drops_to_usd_ceil(drops) ==
    IF drops < 0 THEN ValueError
    ELSE ((drops * get_xrp_usd_price + DROPS_PER_XRP * MillsPerCent - 1)
            \div (DROPS_PER_XRP * MillsPerCent)) * MillsPerCent

\* xrp_drops_to_usd: drops < 0 raises ValueError; otherwise
\* drops / 10^6 * price quantized ROUND_DOWN to cents
xrp_drops_to_usd(drops) ==
    IF drops < 0 THEN ValueError
    ELSE ((drops * get_xrp_usd_price) \div (DROPS_PER_XRP * MillsPerCent))
            * MillsPerCent

\* _usd: Decimal(str(amount)).quantize(0.01, ROUND_DOWN); ROUND_DOWN is toward zero
_usd(mills) ==
    IF mills >= 0 THEN (mills \div MillsPerCent) * MillsPerCent
    ELSE -(((-mills) \div MillsPerCent) * MillsPerCent)

\* to_drops of the monolith: one minor unit is one drop
to_drops(minor) == minor

\* --------------------------------------------------------------- requests
IdleReq ==
    [pc |-> "idle", handler |-> "none", op |-> "none", rid |-> "r1",
     caller |-> "ngoA", amount |-> 0, currency |-> "USD", cur |-> 0,
     tx |-> 0, status |-> 0, detail |-> "none", prev |-> 0, new |-> 0,
     usd |-> 0, queries |-> 0, submits |-> 0, polls |-> 0, writes |-> 0,
     records |-> 0, reads |-> 0, stored |-> 0, seen |-> 0, gw |-> "none"]

\* Fields of a request.  pc, op, rid, caller, amount, currency are the handler's
\* position and inputs; cur is its current_balance local, usd the amount it
\* uses, tx the transaction hash it holds (0: none or empty); status, detail,
\* prev, new are its response.  The others record what it did: queries
\* (ledger balance queries), submits (ledger submissions), polls (Tx polls),
\* writes (balance writes), records (audit rows inserted), reads (reads of the
\* recipient or balance row), stored (the stored balance when it began), seen
\* (the USD value ensure_balance saw, -1 when it was unavailable) and gw (what
\* the ledger did with its submission).

NewReq(h, o, r, c, a, cy) ==
    [IdleReq EXCEPT !.pc = "begin", !.handler = h, !.op = o, !.rid = r,
                    !.caller = c, !.amount = a, !.currency = cy, !.usd = a]

\* a handler returns or raises: the response carries the HTTP status and detail
Respond(q, st, d) == [q EXCEPT !.pc = "done", !.status = st, !.detail = d]

\* no conversion or quote function has been called
IdleConv ==
    [call |-> "none", usd |-> 0, drops |-> 0, dropsIn |-> 0, back |-> 0,
     from_currency |-> "none", to_currency |-> "none", amount_minor |-> 0,
     rejected |-> FALSE, deliver_min |-> 0, send_max |-> 0]

\* the NGO account ids a donation may name ("none": no such account row)
Accounts == {"ngoA"}

IdleDonation == [pc |-> "idle", ngo_id |-> "none", amount |-> 0, current_total |-> 0]

\* ---------------------------------------------------------- wallet records
\* a value of a wallet record's column: None (also a missing key), a string,
\* or a value of another type
None == [t |-> "none", v |-> ""]

Str(v) == [t |-> "str", v |-> v]

NotAStr == [t |-> "int", v |-> "7"]

\* isinstance(value, str) and value
NonEmptyStr(value) == value.t = "str" /\ value.v # ""

\* the record with no wallet column set
EmptyRecord ==
    [address |-> None, public_key |-> None, seed |-> None, private_key |-> None]

\* no wallet helper has been called; ret and derived are the result of
\* resolve_classic_address and the number of derivations it made; raised,
\* out_status, out_detail, out_seed, out_address are the HTTPException or the
\* WalletDetails of extract_wallet
IdleWallet ==
    [call |-> "none", record |-> EmptyRecord, error_detail |-> "none",
     status_code |-> 0, ret |-> None, derived |-> 0, raised |-> FALSE,
     out_status |-> 0, out_detail |-> "none", out_seed |-> "", out_address |-> ""]

\* no wallet-link confirm has been answered
IdleConfirm ==
    [pc |-> "idle", signature |-> [message |-> <<>>, mac |-> <<>>],
     recipient_id |-> <<>>, address |-> <<>>, bucket |-> 0, tampered |-> FALSE,
     status |-> 0, stored |-> FALSE]

\* now is time.time() in seconds; issued the challenges wallet_link_start has
\* answered, each with the pair and the bucket it was made for; wallets the
\* rows of the wallets table; confirm the last wallet_link_confirm
IdleLink == [now |-> 0, issued |-> {}, wallets |-> {}, nconfirm |-> 0,
             confirm |-> IdleConfirm]

\* no account or recipient endpoint has answered; row is the set of columns
\* of the stored row that hold a value, body the keys of the response that do
IdleResp == [endpoint |-> "none", row |-> {}, body |-> {}]

\* no face_promote has answered
IdlePromote ==
    [pc |-> "idle", session_id |-> "none", name |-> "none", status |-> 0,
     detail |-> "none", face_id |-> 0, recipient_id |-> "none", had |-> FALSE]

\* pending: rows of pending_face_maps; maps: rows of face_maps; nextFace the
\* next uuid4 face_id; verified: recipients with verified = True; last: the
\* last face_promote
IdleFace == [pending |-> {}, maps |-> {}, nextFace |-> 1, verified |-> {},
             npromote |-> 0, last |-> IdlePromote]

\* a thread outside get_face_app: entry is face_app as its call found it on
\* entry, ret what the call returned, built whether the call stored a handle
IdleCaller == [pc |-> "idle", entry |-> 0, ret |-> 0, built |-> FALSE]

\* face_app is _FaceAppSingleton.face_app (0: None, else the FaceAnalysis
\* instance), FACE_AVAILABLE the flag, lock the holder of face_lock (0: free),
\* instances the FaceAnalysis objects stored so far, ncalls the calls begun
IdleFaceApp ==
    [face_app |-> 0, FACE_AVAILABLE |-> FALSE, lock |-> 0, instances |-> 0,
     ncalls |-> 0, t |-> [p \in 1..NumProcs |-> IdleCaller]]

\* a row without wallet columns (an account made before wallets existed), or
\* a row that does not exist yet.  Keys are numbered by the wallet they came
\* from: 0 is a missing value, -1 the "pub_key_..." placeholder of the legacy
\* fallback; an address is <<>> when missing
NoWalletRow(exists) ==
    [exists |-> exists, public_key |-> 0, private_key |-> 0, seed |-> 0,
     address |-> <<>>]

\* a thread outside get_current_account; account is its local account dict
IdleMe == [pc |-> "idle", id |-> "none", account |-> NoWalletRow(FALSE)]

\* deployment: which accounts router serves GET /accounts/me ("none" until
\* the first call).
\* rows: the accounts row of a legacy account, of an account made by
\* create_account, and the recipients row made by create_recipient
IdleAcct ==
    [rows |-> [r \in {"legacy_account", "new_account", "new_recipient"} |->
                  NoWalletRow(r = "legacy_account")],
     nextWallet |-> 1, ncalls |-> 0, deployment |-> "none",
     t |-> [p \in 1..NumProcs |-> IdleMe]]

\* the answer of verify_vc before any call
IdleVerify == [jti |-> 0, signed |-> FALSE, status |-> 0, detail |-> "none"]

\* empty credentials and revocations tables, nothing issued, clock at zero
IdleVc ==
    [now |-> 0, nextId |-> 1, tokens |-> {}, creds |-> <<>>,
     revocations |-> {}, revoking |-> {}, completed |-> {},
     nverify |-> 0, last |-> IdleVerify]

\* no endpoint outside the settlement flow has been called
InitLater ==
    /\ link = IdleLink
    /\ resp = IdleResp
    /\ face = IdleFace
    /\ faceapp = IdleFaceApp
    /\ acct = IdleAcct
    /\ vc = IdleVc

\* the settlement state with no request in flight
InitSettled ==
    /\ InitLater
    /\ balance = [r \in Recipients |-> 0]
    /\ amountMinor = [r \in Recipients |-> 0]
    /\ amountNull = [r \in Recipients |-> FALSE]
    /\ ledger = [a \in Addresses |->
                    IF a \in NGOs \cup {HotAddress} THEN FundDrops ELSE 0]
    /\ payouts = <<>>
    /\ moves = <<>>
    /\ expenses = 0
    /\ req = [p \in Procs |-> IdleReq]
    /\ nreq = 0
    /\ nextTx = 1
    /\ net = [r \in Recipients |-> 0]
    /\ hasSubmitAndWait = TRUE

Init ==
    /\ balance = [r \in Recipients |-> 0]
    /\ amountMinor = [r \in Recipients |-> 0]
    /\ amountNull = [r \in Recipients |-> FALSE]
    /\ ledger = [a \in Addresses |->
                    IF a \in NGOs \cup {HotAddress} THEN FundDrops ELSE 0]
    /\ payouts = <<>>
    /\ moves = <<>>
    /\ expenses = 0
    /\ req = [p \in Procs |-> IdleReq]
    /\ nreq = 0
    /\ nextTx = 1
    /\ net = [r \in Recipients |-> 0]
    /\ hasSubmitAndWait \in BOOLEAN
    /\ InitLater
    /\ price = PriceMills
    /\ amounts = Amounts
    /\ conv = IdleConv
    /\ lifetime_donations = [n \in Accounts |-> 0]
    /\ donation = [p \in Procs |-> IdleDonation]
    /\ wallet = IdleWallet

\* the router deployment with clients that send amounts with sub-cent digits
InitCents ==
    /\ InitSettled
    /\ price = PriceMills
    /\ amounts = SubCentAmounts
    /\ conv = IdleConv
    /\ lifetime_donations = [n \in Accounts |-> 0]
    /\ donation = [p \in Procs |-> IdleDonation]
    /\ wallet = IdleWallet

CanStart(p) == req[p].pc \in {"idle", "done"} /\ nreq < MaxRequests

\* ------------------------------------------------------ the ledger gateway
\* What the XRPL library and network do with one submission: the submit call
\* raises, returns a result without a hash, or returns a hash; a hashed
\* transaction is validated at the k-th Tx poll or not before the deadline
\* (and then it may or may not have been applied to the ledger).
GatewayBehaviours ==
    {[kind |-> "raise", at |-> 0, applied |-> FALSE],
     [kind |-> "nohash", at |-> 0, applied |-> FALSE]}
    \cup {[kind |-> "validated", at |-> k, applied |-> TRUE] : k \in 1..PollLimit}
    \cup {[kind |-> "never", at |-> 0, applied |-> b] : b \in BOOLEAN}

\* a payment the sender cannot fund is refused by the ledger
BehavioursFor(sender, drops) ==
    IF drops > 0 /\ ledger[sender] >= drops
    THEN GatewayBehaviours
    ELSE {g \in GatewayBehaviours : g.kind = "raise"}

\* a submit_and_wait_compat that submits again when the submission raised or
\* the polling deadline passed
submit_and_wait_compat_retry(native, g) ==
    IF g.kind \in {"raise", "never"}
    THEN [raised |-> g.kind = "raise", hash |-> g.kind = "never",
          validated |-> FALSE, submits |-> 2,
          polls |-> IF g.kind = "never" THEN PollLimit ELSE 0]
    ELSE [raised |-> g.kind = "nohash", hash |-> g.kind = "validated",
          validated |-> g.kind = "validated", submits |-> 1,
          polls |-> IF native THEN 0 ELSE g.at]

\* submit_and_wait_compat: native submit_and_wait when the library has it,
\* otherwise one submit followed by Tx polls until validated or the deadline.
\* Result: raised, hash (a tx hash was returned), validated, and the numbers
\* of submissions and polls made.
submit_and_wait_compat(native, g) ==
    IF native
    THEN IF g.kind = "validated"
         THEN [raised |-> FALSE, hash |-> TRUE, validated |-> TRUE,
               submits |-> 1, polls |-> 0]
         ELSE [raised |-> TRUE, hash |-> FALSE, validated |-> FALSE,
               submits |-> 1, polls |-> 0]
    ELSE IF g.kind \in {"raise", "nohash"}
         THEN [raised |-> TRUE, hash |-> FALSE, validated |-> FALSE,
               submits |-> 1, polls |-> 0]
         ELSE IF g.kind = "validated"
              THEN [raised |-> FALSE, hash |-> TRUE, validated |-> TRUE,
                    submits |-> 1, polls |-> g.at]
              ELSE [raised |-> FALSE, hash |-> TRUE, validated |-> FALSE,
                    submits |-> 1, polls |-> PollLimit]

\* the transfer took effect on the ledger
Applied(native, g) ==
    \/ g.kind = "validated"
    \/ g.kind = "never" /\ g.applied /\ ~native

\* a _submit_transaction whose handler swallows the exception and carries on
\* as if a hash had been returned
_submit_transaction_swallow(native, g) ==
    LET r == submit_and_wait_compat(native, g) IN
    [hash |-> TRUE, status |-> 200, detail |-> "ok", validated |-> r.validated,
     submits |-> r.submits, polls |-> r.polls]

\* _submit_transaction: any exception becomes HTTP 502, as does a missing hash
_submit_transaction(native, g) ==
    LET r == submit_and_wait_compat(native, g) IN
    IF r.raised
    THEN [hash |-> FALSE, status |-> 502, detail |-> "xrpl_submission_failed",
          validated |-> FALSE, submits |-> r.submits, polls |-> r.polls]
    ELSE IF ~r.hash
    THEN [hash |-> FALSE, status |-> 502, detail |-> "xrpl_no_hash",
          validated |-> FALSE, submits |-> r.submits, polls |-> r.polls]
    ELSE [hash |-> TRUE, status |-> 200, detail |-> "ok",
          validated |-> r.validated, submits |-> r.submits, polls |-> r.polls]

\* wallet_to_wallet_send: builds the payment and submits it
wallet_to_wallet_send(native, g) == _submit_transaction(native, g)

\* send_usd: a falsy hash from wallet_to_wallet_send is a failed transfer
send_usd(native, g) ==
    LET r == wallet_to_wallet_send(native, g) IN
    IF r.status = 200 /\ ~r.hash
    THEN [r EXCEPT !.status = 500, !.detail = "wallet_transfer_failed"]
    ELSE r

\* an ensure_balance that also refuses a wallet holding exactly the amount
ensure_balance_strict(fetched, drops, amount_required) ==
    IF ~fetched THEN "wallet_unavailable"
    ELSE IF xrp_drops_to_usd(drops) <= amount_required THEN "insufficient_wallet"
    ELSE "ok"

\* ensure_balance: fetched = FALSE is get_wallet_balance returning None
ensure_balance(fetched, drops, amount_required) ==
    IF ~fetched THEN "wallet_unavailable"
    ELSE IF xrp_drops_to_usd(drops) < amount_required THEN "insufficient_wallet"
    ELSE "ok"

\* the ledger after drops moved from one address to another
Transfer(from, to, drops) ==
    [ledger EXCEPT ![from] = @ - drops, ![to] = @ + drops]

\* the request after a transfer attempt on which the ledger behaved as g
AfterSend(q, r, g) ==
    [q EXCEPT !.submits = @ + r.submits, !.polls = @ + r.polls, !.gw = g.kind]

\* ------------------------------------------- api/src/routers/recipients.py
\* a validation with ge=0 in place of gt=0
ValidAmount_ge(a) == a >= 0

\* BalanceOperation: amount is Field(gt=0); the framework answers 422 before
\* the handler body runs
ValidAmount(a) == a > 0

\* current_balance + body.amount for a deposit, - body.amount for a withdraw
NewBalance(op, cur, amount) ==
    IF op = "deposit" THEN cur + amount ELSE cur - amount

\* an update that applies the handler's change to the balance stored now
WriteBalance_relative(stored, current_balance, new_balance) ==
    stored + (new_balance - current_balance)

\* the stored balance after the handler's update_item (SET balance = :balance):
\* the value computed from the balance the handler read, whatever is stored now
WriteBalance(stored, current_balance, new_balance) == new_balance

\* a lookup that does not compare the row's ngo_id with the caller
RecipientFound_any(rid, caller) == rid \in Recipients

\* the recipient row exists and belongs to the calling NGO
\* (not recipient or recipient.get("ngo_id") != ngo_id raises 404)
RecipientFound(rid, caller) == rid \in Recipients /\ OwnerOf(rid) = caller

\* manage_recipient_balance up to _load_wallets: validation, the recipient
\* read, the ownership check and the off-ledger sufficiency check
RecipientsBegin(p) ==
    /\ CanStart(p)
    /\ \E op \in {"deposit", "withdraw"}, rid \in RecipientIds,
          caller \in NGOs, a \in amounts :
        LET q0 == NewReq("recipients", op, rid, caller, a, "USD")
            cur == IF rid \in Recipients THEN balance[rid] ELSE 0
            q == [q0 EXCEPT !.reads = 1, !.stored = cur] IN
        req' = [req EXCEPT ![p] =
            IF ~ValidAmount(a) THEN Respond(q0, 422, "invalid_amount")
            ELSE IF ~RecipientFound(rid, caller) THEN Respond(q, 404, "not_found")
            ELSE IF op = "withdraw" /\ cur < a
                 THEN Respond([q EXCEPT !.cur = cur], 400, "insufficient_balance")
            ELSE [q EXCEPT !.pc = "ensure", !.cur = cur]]
    /\ nreq' = nreq + 1
    /\ UNCHANGED <<balance, amountMinor, amountNull, ledger, payouts, moves,
                   expenses, nextTx, net, hasSubmitAndWait, price, amounts,
                   otherVars>>

\* the wallet that pays: the NGO's for a deposit, the recipient's for a withdraw
Source(q) == IF q.op = "deposit" THEN q.caller ELSE q.rid
Destination(q) == IF q.op = "deposit" THEN q.rid ELSE q.caller

\* ensure_balance on the paying wallet (one balance query to the ledger)
RecipientsEnsure(p) ==
    /\ req[p].pc = "ensure"
    /\ req[p].handler = "recipients"
    /\ \E fetched \in BOOLEAN :
        LET w == ledger[Source(req[p])]
            q == [req[p] EXCEPT !.queries = @ + 1,
                                !.seen = IF fetched THEN xrp_drops_to_usd(w) ELSE -1]
            e == ensure_balance(fetched, w, q.usd) IN
        req' = [req EXCEPT ![p] =
            IF e = "ok" THEN [q EXCEPT !.pc = "send"] ELSE Respond(q, 400, e)]
    /\ UNCHANGED <<balance, amountMinor, amountNull, ledger, payouts, moves,
                   expenses, nreq, nextTx, net, hasSubmitAndWait, price, amounts,
                   otherVars>>

\* send_usd from the paying wallet
RecipientsSend(p) ==
    /\ req[p].pc = "send"
    /\ req[p].handler = "recipients"
    /\ LET q == req[p]
           drops == usd_to_xrp_drops(q.usd) IN
       \E g \in BehavioursFor(Source(q), drops) :
        LET r == send_usd(hasSubmitAndWait, g)
            sent == AfterSend(q, r, g) IN
        /\ ledger' = IF Applied(hasSubmitAndWait, g)
                     THEN Transfer(Source(q), Destination(q), drops)
                     ELSE ledger
        /\ IF r.status = 200
           THEN /\ req' = [req EXCEPT ![p] =
                          [sent EXCEPT !.pc = "write", !.tx = nextTx,
                                       !.new = NewBalance(q.op, q.cur, q.amount)]]
                /\ nextTx' = nextTx + 1
                /\ net' = [net EXCEPT ![q.rid] = NewBalance(q.op, @, q.usd)]
           ELSE /\ req' = [req EXCEPT ![p] = Respond(sent, r.status, r.detail)]
                /\ UNCHANGED <<nextTx, net>>
    /\ UNCHANGED <<balance, amountMinor, amountNull, payouts, moves, expenses,
                   nreq, hasSubmitAndWait, price, amounts,
                   otherVars>>

\* TBL_RECIPIENTS.update_item and the response
RecipientsWrite(p) ==
    /\ req[p].pc = "write"
    /\ req[p].handler = "recipients"
    /\ LET q == req[p] IN
        /\ balance' = [balance EXCEPT ![q.rid] = WriteBalance(@, q.cur, q.new)]
        /\ req' = [req EXCEPT ![p] =
                      Respond([q EXCEPT !.prev = q.cur, !.writes = @ + 1], 200, "ok")]
    /\ UNCHANGED <<amountMinor, amountNull, ledger, payouts, moves, expenses,
                   nreq, nextTx, net, hasSubmitAndWait, price, amounts,
                   otherVars>>

\* --------------------------------------------- api/src/routers/accounts.py
\* manage_recipient_balance up to the first ledger call: operation and amount
\* validation (_usd, positive), the NGO and recipient reads, the ownership check
AccountsBegin(p) ==
    /\ CanStart(p)
    /\ \E op \in {"deposit", "withdraw"}, rid \in RecipientIds,
          caller \in NGOs, a \in amounts :
        LET q0 == NewReq("accounts", op, rid, caller, a, "USD")
            q == [q0 EXCEPT !.reads = 1,
                            !.stored = IF rid \in Recipients THEN balance[rid] ELSE 0] IN
        req' = [req EXCEPT ![p] =
            IF ~ValidAmount(a) THEN Respond(q0, 422, "invalid_amount")
            ELSE IF _usd(a) <= 0 THEN Respond(q0, 400, "invalid_amount")
            ELSE IF ~RecipientFound(rid, caller) THEN Respond(q, 404, "not_found")
            ELSE [q EXCEPT !.pc = "lookup", !.usd = _usd(a)]]
    /\ nreq' = nreq + 1
    /\ UNCHANGED <<balance, amountMinor, amountNull, ledger, payouts, moves,
                   expenses, nextTx, net, hasSubmitAndWait, price, amounts,
                   otherVars>>

\* balance_from_public_key: the "current balance" is the recipient wallet's
\* on-ledger USD value (0.0 when it cannot be fetched); the withdraw check
\* compares the amount with it
AccountsLookup(p) ==
    /\ req[p].pc = "lookup"
    /\ req[p].handler = "accounts"
    /\ \E fetched \in BOOLEAN :
        LET cur == IF fetched THEN _usd(xrp_drops_to_usd(ledger[req[p].rid])) ELSE 0
            q == [req[p] EXCEPT !.queries = @ + 1, !.cur = cur] IN
        req' = [req EXCEPT ![p] =
            IF q.op = "withdraw" /\ cur < q.usd
            THEN Respond(q, 400, "insufficient_balance")
            ELSE [q EXCEPT !.pc = "ensure"]]
    /\ UNCHANGED <<balance, amountMinor, amountNull, ledger, payouts, moves,
                   expenses, nreq, nextTx, net, hasSubmitAndWait, price, amounts,
                   otherVars>>

AccountsEnsure(p) ==
    /\ req[p].pc = "ensure"
    /\ req[p].handler = "accounts"
    /\ \E fetched \in BOOLEAN :
        LET w == ledger[Source(req[p])]
            q == [req[p] EXCEPT !.queries = @ + 1,
                                !.seen = IF fetched THEN xrp_drops_to_usd(w) ELSE -1]
            e == ensure_balance(fetched, w, q.usd) IN
        req' = [req EXCEPT ![p] =
            IF e = "ok" THEN [q EXCEPT !.pc = "send"] ELSE Respond(q, 400, e)]
    /\ UNCHANGED <<balance, amountMinor, amountNull, ledger, payouts, moves,
                   expenses, nreq, nextTx, net, hasSubmitAndWait, price, amounts,
                   otherVars>>

\* send_usd, then the response; this handler writes no table
AccountsSend(p) ==
    /\ req[p].pc = "send"
    /\ req[p].handler = "accounts"
    /\ LET q == req[p]
           drops == usd_to_xrp_drops(q.usd) IN
       \E g \in BehavioursFor(Source(q), drops) :
        LET r == send_usd(hasSubmitAndWait, g)
            sent == AfterSend(q, r, g) IN
        /\ ledger' = IF Applied(hasSubmitAndWait, g)
                     THEN Transfer(Source(q), Destination(q), drops)
                     ELSE ledger
        /\ IF r.status = 200
           THEN /\ req' = [req EXCEPT ![p] =
                     Respond([sent EXCEPT !.tx = nextTx, !.prev = q.cur,
                                  !.new = _usd(NewBalance(q.op, q.cur, q.usd))],
                             200, "ok")]
                /\ nextTx' = nextTx + 1
                /\ net' = [net EXCEPT ![q.rid] = NewBalance(q.op, @, q.usd)]
           ELSE /\ req' = [req EXCEPT ![p] = Respond(sent, r.status, r.detail)]
                /\ UNCHANGED <<nextTx, net>>
    /\ UNCHANGED <<balance, amountMinor, amountNull, payouts, moves, expenses,
                   nreq, hasSubmitAndWait, price, amounts,
                   otherVars>>

\* -------------------------------------------- src/src/routers/financial.py
\* _submit of src/src/core/xrpl.py: one native submit_and_wait; an exception
\* or an empty hash becomes HTTP 502
_submit(g) ==
    IF g.kind = "validated"
    THEN [hash |-> TRUE, status |-> 200, detail |-> "ok", validated |-> TRUE,
          submits |-> 1, polls |-> 0]
    ELSE [hash |-> FALSE, status |-> 502,
          detail |-> IF g.kind = "nohash" THEN "xrpl_no_hash"
                     ELSE "xrpl_submission_failed",
          validated |-> FALSE, submits |-> 1, polls |-> 0]

\* transfer_between_wallets: the ledger gateway's transfer (a transaction id,
\* or a failure)
transfer_between_wallets(g) == _submit(g)

\* convert_drops_to_usd / convert_usd_to_drops: the gateway's conversions
convert_drops_to_usd(drops) == xrp_drops_to_usd(drops)
convert_usd_to_drops(mills) == usd_to_xrp_drops(mills)

\* get_quote of src/src/core/xrpl.py rejects every pair but XRP to USD and
\* every non-positive amount
QuoteAccepted(currency, amount_minor) == currency = "USD" /\ amount_minor > 0

\* redeem up to the ledger balance query: body validation (amount_minor is
\* conint(gt=0)) and the recipient read, which also reads the stored balance
RedeemBegin(p) ==
    /\ CanStart(p)
    /\ \E rid \in Recipients, m \in MinorAmounts, cy \in Currencies :
        LET q0 == NewReq("redeem", "redeem", rid, OwnerOf(rid), m, cy)
            q == [q0 EXCEPT !.reads = 1, !.stored = balance[rid]] IN
        req' = [req EXCEPT ![p] =
            IF ~ValidAmount(m) THEN Respond(q0, 422, "invalid_amount")
            ELSE [q EXCEPT !.pc = "fquery", !.cur = balance[rid],
                           !.usd = m * MillsPerCent]]
    /\ nreq' = nreq + 1
    /\ UNCHANGED <<balance, amountMinor, amountNull, ledger, payouts, moves,
                   expenses, nextTx, net, hasSubmitAndWait, price, amounts,
                   otherVars>>

\* fetch_xrp_balance_drops of src/src/core/xrpl.py answers 0 when the request
\* fails; the only sufficiency check of redeem is on the wallet's USD value
RedeemQuery(p) ==
    /\ req[p].pc = "fquery"
    /\ \E fetched \in BOOLEAN :
        LET q == [req[p] EXCEPT !.queries = @ + 1]
            drops == IF fetched THEN ledger[q.rid] ELSE 0 IN
        req' = [req EXCEPT ![p] =
            IF convert_drops_to_usd(drops) < q.usd
            THEN Respond(q, 400, "insufficient_wallet")
            ELSE [q EXCEPT !.pc = "fsend"]]
    /\ UNCHANGED <<balance, amountMinor, amountNull, ledger, payouts, moves,
                   expenses, nreq, nextTx, net, hasSubmitAndWait, price, amounts,
                   otherVars>>

\* the transfer from the recipient's wallet to NGO_HOT_ADDRESS; a falsy hash
\* and every exception become HTTP 500 "XRPL transfer failed"
RedeemSend(p) ==
    /\ req[p].pc = "fsend"
    /\ LET q == req[p]
           drops == convert_usd_to_drops(q.usd) IN
       \E g \in BehavioursFor(q.rid, drops) :
        LET r == transfer_between_wallets(g)
            sent == AfterSend(q, r, g) IN
        /\ ledger' = IF Applied(TRUE, g)
                     THEN Transfer(q.rid, HotAddress, drops)
                     ELSE ledger
        /\ IF r.status = 200 /\ r.hash
           THEN /\ req' = [req EXCEPT ![p] =
                          [sent EXCEPT !.pc = "fwrite", !.tx = nextTx]]
                /\ nextTx' = nextTx + 1
                /\ net' = [net EXCEPT ![q.rid] = @ - q.usd]
           ELSE /\ req' = [req EXCEPT ![p] =
                          Respond(sent, 500, "xrpl_transfer_failed")]
                /\ UNCHANGED <<nextTx, net>>
    /\ UNCHANGED <<balance, amountMinor, amountNull, payouts, moves, expenses,
                   nreq, hasSubmitAndWait, price, amounts,
                   otherVars>>

\* get_quote, the payout row, the balance update from the balance read at the
\* start (current_db_balance - amount_major), and the movement row
RedeemWrite(p) ==
    /\ req[p].pc = "fwrite"
    /\ LET q == req[p] IN
        IF ~QuoteAccepted(q.currency, q.amount)
        THEN /\ req' = [req EXCEPT ![p] = Respond(q, 400, "unsupported_pair")]
             /\ UNCHANGED <<balance, payouts, moves>>
        ELSE /\ payouts' = Append(payouts,
                    [tx |-> q.tx, amount_minor |-> q.amount, status |-> "completed"])
             /\ balance' = [balance EXCEPT ![q.rid] = WriteBalance(@, q.cur, q.cur - q.usd)]
             /\ moves' = Append(moves,
                    [tx |-> q.tx, delivered_minor |-> convert_usd_to_drops(q.usd)])
             /\ req' = [req EXCEPT ![p] =
                    Respond([q EXCEPT !.prev = q.cur, !.new = q.cur - q.usd,
                                      !.writes = @ + 1, !.records = @ + 2],
                            200, "ok")]
    /\ UNCHANGED <<amountMinor, amountNull, ledger, expenses, nreq, nextTx, net,
                   hasSubmitAndWait, price, amounts,
                   otherVars>>

\* ------------------------------------------------------------ router spec
Next ==
    \E p \in Procs :
        \/ RecipientsBegin(p)
        \/ RecipientsEnsure(p)
        \/ RecipientsSend(p)
        \/ RecipientsWrite(p)
        \/ AccountsBegin(p)
        \/ AccountsLookup(p)
        \/ AccountsEnsure(p)
        \/ AccountsSend(p)
        \/ RedeemBegin(p)
        \/ RedeemQuery(p)
        \/ RedeemSend(p)
        \/ RedeemWrite(p)

Spec == Init /\ [][Next]_vars

SpecCents == InitCents /\ [][Next]_vars

\* ------------------------------------------------------- src/src/app.py
\* SupabaseTable.update_item: each "field = value_key" part of the SET
\* expression stores ExpressionAttributeValues.get(value_key), which is None
\* when value_key is not a key of the values
update_item(value_key, values) ==
    IF value_key \in DOMAIN values
    THEN [null |-> FALSE, v |-> values[value_key]]
    ELSE [null |-> TRUE, v |-> 0]

\* manage_recipient_balance of the monolith up to its update: the recipient
\* and balance reads and the withdraw check.  The whole body is wrapped in
\* "except Exception", so its own 404 and 400 leave as HTTP 500, as does the
\* TypeError of comparing or adding a NULL amount_minor.
MonoManageBegin(p) ==
    /\ CanStart(p)
    /\ \E op \in {"deposit", "withdraw"}, rid \in Recipients,
          caller \in NGOs, m \in MinorAmounts :
        LET q0 == NewReq("mono_manage", op, rid, caller, m, "USD")
            cur == amountMinor[rid]
            q == [q0 EXCEPT !.reads = 1, !.stored = cur] IN
        req' = [req EXCEPT ![p] =
            IF ~ValidAmount(m) THEN Respond(q0, 422, "invalid_amount")
            ELSE IF OwnerOf(rid) # caller THEN Respond(q, 500, "database_error")
            ELSE IF amountNull[rid] THEN Respond(q, 500, "database_error")
            ELSE IF op = "withdraw" /\ cur < m
                 THEN Respond([q EXCEPT !.cur = cur], 500, "database_error")
            ELSE [q EXCEPT !.pc = "mwrite", !.cur = cur,
                           !.new = NewBalance(op, cur, m)]]
    /\ nreq' = nreq + 1
    /\ UNCHANGED <<balance, amountMinor, amountNull, ledger, payouts, moves,
                   expenses, nextTx, net, hasSubmitAndWait, price, amounts,
                   otherVars>>

\* the update of recipient_balances, the expense row of a deposit, the response
MonoManageWrite(p) ==
    /\ req[p].pc = "mwrite"
    /\ LET q == req[p]
           u == update_item(":new_balance", (":new_balance" :> q.new)) IN
        /\ amountMinor' = [amountMinor EXCEPT ![q.rid] = u.v]
        /\ amountNull' = [amountNull EXCEPT ![q.rid] = u.null]
        /\ expenses' = IF q.op = "deposit" THEN expenses + 1 ELSE expenses
        /\ req' = [req EXCEPT ![p] =
               Respond([q EXCEPT !.prev = q.cur, !.writes = @ + 1,
                          !.records = IF q.op = "deposit" THEN 1 ELSE 0],
                       200, "ok")]
    /\ UNCHANGED <<balance, ledger, payouts, moves, nreq, nextTx, net,
                   hasSubmitAndWait, price, amounts,
                   otherVars>>

\* pay_offramp_on_xrpl (with the xrpl library installed and the hot wallet
\* configured): safe_sign_and_submit_transaction raises, or its result is
\* returned as resp.result.get("tx_json", {}).get("hash", ""): the empty
\* string when the result carries no hash
pay_offramp_on_xrpl(g) ==
    IF g.kind = "raise"
    THEN [hash |-> FALSE, status |-> 500, detail |-> "internal_error",
          validated |-> FALSE, submits |-> 1, polls |-> 0]
    ELSE [hash |-> g.kind # "nohash", status |-> 200, detail |-> "ok",
          validated |-> FALSE, submits |-> 1, polls |-> 0]

\* redeem of the monolith up to the payment: body validation, the balance
\* read and the off-ledger sufficiency check
MonoRedeemBegin(p) ==
    /\ CanStart(p)
    /\ \E rid \in Recipients, m \in MinorAmounts, cy \in Currencies :
        LET q0 == NewReq("mono_redeem", "redeem", rid, OwnerOf(rid), m, cy)
            q == [q0 EXCEPT !.reads = 1, !.stored = amountMinor[rid]] IN
        req' = [req EXCEPT ![p] =
            IF ~ValidAmount(m) THEN Respond(q0, 422, "invalid_amount")
            ELSE IF amountNull[rid] THEN Respond(q, 500, "internal_error")
            ELSE IF amountMinor[rid] < m
                 THEN Respond([q EXCEPT !.cur = amountMinor[rid]],
                              400, "insufficient_balance")
            ELSE [q EXCEPT !.pc = "rsend", !.cur = amountMinor[rid]]]
    /\ nreq' = nreq + 1
    /\ UNCHANGED <<balance, amountMinor, amountNull, ledger, payouts, moves,
                   expenses, nextTx, net, hasSubmitAndWait, price, amounts,
                   otherVars>>

\* the payment from the NGO hot wallet to the off-ramp deposit address
MonoRedeemSend(p) ==
    /\ req[p].pc = "rsend"
    /\ LET q == req[p]
           drops == to_drops(q.amount) IN
       \E g \in BehavioursFor(HotAddress, drops) :
        LET r == pay_offramp_on_xrpl(g)
            sent == AfterSend(q, r, g) IN
        /\ ledger' = IF g.applied
                     THEN [ledger EXCEPT ![HotAddress] = @ - drops]
                     ELSE ledger
        /\ IF r.status = 200
           THEN /\ req' = [req EXCEPT ![p] =
                      [sent EXCEPT !.pc = "rwrite",
                                   !.tx = IF r.hash THEN nextTx ELSE 0]]
                /\ nextTx' = IF r.hash THEN nextTx + 1 ELSE nextTx
           ELSE /\ req' = [req EXCEPT ![p] = Respond(sent, r.status, r.detail)]
                /\ UNCHANGED nextTx
    /\ UNCHANGED <<balance, amountMinor, amountNull, payouts, moves, expenses,
                   nreq, net, hasSubmitAndWait, price, amounts,
                   otherVars>>

\* the payout row, the balance update "SET amount_minor = amount_minor - :a",
\* and the movement row when the hash is not empty
MonoRedeemWrite(p) ==
    /\ req[p].pc = "rwrite"
    /\ LET q == req[p]
           u == update_item("amount_minor - :a", (":a" :> q.amount)) IN
        /\ payouts' = Append(payouts,
               [tx |-> q.tx, amount_minor |-> q.amount, status |-> "processing"])
        /\ amountMinor' = [amountMinor EXCEPT ![q.rid] = u.v]
        /\ amountNull' = [amountNull EXCEPT ![q.rid] = u.null]
        /\ moves' = IF q.tx # 0
                    THEN Append(moves,
                           [tx |-> q.tx, delivered_minor |-> to_drops(q.amount)])
                    ELSE moves
        /\ req' = [req EXCEPT ![p] =
               Respond([q EXCEPT !.prev = q.cur, !.writes = @ + 1,
                          !.records = IF q.tx # 0 THEN 2 ELSE 1],
                       200, "ok")]
    /\ UNCHANGED <<balance, ledger, expenses, nreq, nextTx, net,
                   hasSubmitAndWait, price, amounts,
                   otherVars>>

NextMono ==
    \E p \in Procs :
        \/ MonoManageBegin(p)
        \/ MonoManageWrite(p)
        \/ MonoRedeemBegin(p)
        \/ MonoRedeemSend(p)
        \/ MonoRedeemWrite(p)

SpecMono == Init /\ [][NextMono]_vars

\* ------------------------------------- conversions and quotes, called alone
\* the prices the rate may be configured to: a few mills, the 2.0 of the
\* tests' configuration, and the default
Prices == (1..MaxPriceMills) \cup {2000, PriceMills}

\* usd arguments: negative, zero, every mill up to MaxUsdMills, and $1.00
UsdInputs == ((-1)..MaxUsdMills) \cup {1000}

\* drops arguments besides the result of the last usd_to_xrp_drops
DropsInputs == ((-1)..MaxDropsIn) \cup {500000}

QuoteCurrencies == {"XRP", "USD", "EUR"}
QuoteAmounts == ((-1)..MaxQuoteMinor) \cup {100, 199}

\* int(x) of Python truncates toward zero
TruncDiv(a, b) == IF a >= 0 THEN a \div b ELSE -((-a) \div b)

\* get_quote of api/src/core/xrpl.py: deliver_min is amount_minor * 0.99 and
\* send_max is amount_minor / 100 / price * 10^6 * 1.01, each ROUND_DOWN to an
\* integer (the division by 100 is carried out first here: it is exact)
get_quote(from_currency, to_currency, amount_minor) ==
    IF from_currency # "XRP" \/ to_currency # "USD" \/ amount_minor <= 0
    THEN [rejected |-> TRUE, deliver_min |-> 0, send_max |-> 0]
    ELSE [rejected |-> FALSE,
          deliver_min |-> (amount_minor * 99) \div 100,
          send_max |-> (amount_minor * 101 * ((MillsPerCent * DROPS_PER_XRP) \div 100))
                          \div get_xrp_usd_price]

\* get_quote of the monolith: no check of the pair or of the amount,
\* deliver_min = amount_minor, send_max = int(amount_minor * 1.003)
app_get_quote(from_currency, to_currency, amount_minor) ==
    [rejected |-> FALSE,
     deliver_min |-> amount_minor,
     send_max |-> TruncDiv(amount_minor * 1003, 1000)]

CallUsdToDrops ==
    /\ \E usd \in UsdInputs :
        conv' = [IdleConv EXCEPT !.call = "usd_to_xrp_drops", !.usd = usd,
                                 !.drops = usd_to_xrp_drops(usd)]
    /\ UNCHANGED <<balance, amountMinor, amountNull, ledger, payouts, moves,
                   expenses, req, nreq, nextTx, net, hasSubmitAndWait, price,
                   amounts, lifetime_donations, donation, wallet, laterVars>>

\* xrp_drops_to_usd of some drops, or of the drops the last usd_to_xrp_drops
\* returned (the round trip of the tests)
CallDropsToUsd ==
    /\ \E d \in DropsInputs \cup {conv.drops} :
        conv' = [conv EXCEPT !.call = "xrp_drops_to_usd", !.dropsIn = d,
                             !.back = xrp_drops_to_usd(d)]
    /\ UNCHANGED <<balance, amountMinor, amountNull, ledger, payouts, moves,
                   expenses, req, nreq, nextTx, net, hasSubmitAndWait, price,
                   amounts, lifetime_donations, donation, wallet, laterVars>>

CallGetQuote ==
    /\ \E f \in QuoteCurrencies, t \in QuoteCurrencies, a \in QuoteAmounts :
        LET r == get_quote(f, t, a) IN
        conv' = [IdleConv EXCEPT !.call = "get_quote", !.from_currency = f,
                                 !.to_currency = t, !.amount_minor = a,
                                 !.rejected = r.rejected,
                                 !.deliver_min = r.deliver_min,
                                 !.send_max = r.send_max]
    /\ UNCHANGED <<balance, amountMinor, amountNull, ledger, payouts, moves,
                   expenses, req, nreq, nextTx, net, hasSubmitAndWait, price,
                   amounts, lifetime_donations, donation, wallet, laterVars>>

CallAppGetQuote ==
    /\ \E f \in QuoteCurrencies, t \in QuoteCurrencies, a \in QuoteAmounts :
        LET r == app_get_quote(f, t, a) IN
        conv' = [IdleConv EXCEPT !.call = "app_get_quote", !.from_currency = f,
                                 !.to_currency = t, !.amount_minor = a,
                                 !.rejected = r.rejected,
                                 !.deliver_min = r.deliver_min,
                                 !.send_max = r.send_max]
    /\ UNCHANGED <<balance, amountMinor, amountNull, ledger, payouts, moves,
                   expenses, req, nreq, nextTx, net, hasSubmitAndWait, price,
                   amounts, lifetime_donations, donation, wallet, laterVars>>

InitConv ==
    /\ InitSettled
    /\ price \in Prices
    /\ amounts = Amounts
    /\ conv = IdleConv
    /\ lifetime_donations = [n \in Accounts |-> 0]
    /\ donation = [p \in Procs |-> IdleDonation]
    /\ wallet = IdleWallet

NextConv ==
    \/ CallUsdToDrops
    \/ CallDropsToUsd
    \/ CallGetQuote
    \/ CallAppGetQuote

SpecConv == InitConv /\ [][NextConv]_vars

\* ------------------------------------------ api/src/routers/donor.py
\* the NGO id a donation resolves to: an account's id, an id with no account
\* row (a program id used in its place), or none
DonationNgoIds == Accounts \cup {"prog1", "none"}

\* amount_received of the payment intent, in cents
DonationAmounts == 0..MaxDonation

\* fulfill_payment up to _increment_lifetime_donations: the payment intent is
\* retrieved, the funds are sent by onramp_via_faucet (which may raise), and
\* _increment_lifetime_donations returns at once without an NGO id or with
\* amount <= 0
FulfillBegin(p) ==
    /\ donation[p].pc \in {"idle", "done"}
    /\ nreq < MaxRequests
    /\ \E n \in DonationNgoIds, a \in DonationAmounts, sent \in BOOLEAN :
        donation' = [donation EXCEPT ![p] =
            [pc |-> IF sent /\ n # "none" /\ a > 0 THEN "read" ELSE "done",
             ngo_id |-> n, amount |-> a, current_total |-> 0]]
    /\ nreq' = nreq + 1
    /\ UNCHANGED <<balance, amountMinor, amountNull, ledger, payouts, moves,
                   expenses, req, nextTx, net, hasSubmitAndWait, price, amounts,
                   conv, lifetime_donations, wallet, laterVars>>

\* _safe_get(TBL_ACCOUNTS, ...): None when the read raises or finds no row, and
\* the current total is then taken as 0
IncrementRead(p) ==
    /\ donation[p].pc = "read"
    /\ \E fetched \in BOOLEAN :
        LET d == donation[p] IN
        donation' = [donation EXCEPT ![p] =
            [d EXCEPT !.pc = "write",
                      !.current_total =
                          IF fetched /\ d.ngo_id \in Accounts
                          THEN lifetime_donations[d.ngo_id] ELSE 0]]
    /\ UNCHANGED <<balance, amountMinor, amountNull, ledger, payouts, moves,
                   expenses, req, nreq, nextTx, net, hasSubmitAndWait, price,
                   amounts, conv, lifetime_donations, wallet, laterVars>>

\* update({"lifetime_donations": round(current_total + amount, 2)}) of the
\* rows with that ngo_id; an exception is logged and dropped
IncrementWrite(p) ==
    /\ donation[p].pc = "write"
    /\ \E written \in BOOLEAN :
        LET d == donation[p] IN
        lifetime_donations' =
            IF written /\ d.ngo_id \in Accounts
            THEN [lifetime_donations EXCEPT ![d.ngo_id] = d.current_total + d.amount]
            ELSE lifetime_donations
    /\ donation' = [donation EXCEPT ![p].pc = "done"]
    /\ UNCHANGED <<balance, amountMinor, amountNull, ledger, payouts, moves,
                   expenses, req, nreq, nextTx, net, hasSubmitAndWait, price,
                   amounts, conv, wallet, laterVars>>

\* send_dev_payment: wallet_to_wallet_send is keyword-only and is called with
\* positional arguments, outside the try: the TypeError ends the request
\* before _increment_lifetime_donations
SendDevPayment(p) ==
    /\ donation[p].pc \in {"idle", "done"}
    /\ nreq < MaxRequests
    /\ \E n \in DonationNgoIds, a \in DonationAmounts \ {0} :
        donation' = [donation EXCEPT ![p] =
            [pc |-> "done", ngo_id |-> n, amount |-> a, current_total |-> 0]]
    /\ nreq' = nreq + 1
    /\ UNCHANGED <<balance, amountMinor, amountNull, ledger, payouts, moves,
                   expenses, req, nextTx, net, hasSubmitAndWait, price, amounts,
                   conv, lifetime_donations, wallet, laterVars>>

InitDonor ==
    /\ InitSettled
    /\ price = PriceMills
    /\ amounts = Amounts
    /\ conv = IdleConv
    /\ lifetime_donations = [n \in Accounts |-> 0]
    /\ donation = [p \in Procs |-> IdleDonation]
    /\ wallet = IdleWallet

NextDonor ==
    \E p \in Procs :
        \/ FulfillBegin(p)
        \/ IncrementRead(p)
        \/ IncrementWrite(p)
        \/ SendDevPayment(p)

SpecDonor == InitDonor /\ [][NextDonor]_vars

\* ---------------------------------------------------- wallet helpers spec
\* the wallet columns of an account or recipient row
AddressValues == {None, Str(""), Str("rExisting"), NotAStr}

PublicKeyValues == {None, Str(""), Str("PUB"), Str("BAD"), NotAStr}

SeedValues == {None, Str(""), Str("s3cr3t"), NotAStr}

PrivateKeyValues == {None, Str(""), Str("priv"), NotAStr}

WalletRecords ==
    [address : AddressValues, public_key : PublicKeyValues,
     seed : SeedValues, private_key : PrivateKeyValues]

\* the error_detail and status_code the callers pass
ErrorDetails == {"missing wallet", "Wallet keys not properly configured"}

StatusCodes == {500, 422}

\* derive_address_from_public_key: derive_classic_address of a well-formed
\* key, None when it raises
derive_address_from_public_key(public_key) ==
    IF public_key = "PUB" THEN Str("derived-PUB") ELSE None

\* a resolution that looks at the public key before the stored address
resolve_classic_address_pubfirst(record) ==
    IF NonEmptyStr(record.public_key)
    THEN [ret |-> derive_address_from_public_key(record.public_key.v), derived |-> 1]
    ELSE IF NonEmptyStr(record.address)
    THEN [ret |-> record.address, derived |-> 0]
    ELSE [ret |-> None, derived |-> 0]

\* resolve_classic_address: ret is the value returned, derived the number of
\* calls of derive_address_from_public_key
resolve_classic_address(record) ==
    IF NonEmptyStr(record.address)
    THEN [ret |-> record.address, derived |-> 0]
    ELSE IF NonEmptyStr(record.public_key)
    THEN [ret |-> derive_address_from_public_key(record.public_key.v), derived |-> 1]
    ELSE [ret |-> None, derived |-> 0]

\* the loop over secret_fields = ("seed", "private_key"): the first value
\* that is a non-empty string, None when there is none
FirstSecret(record) ==
    IF NonEmptyStr(record.seed) THEN record.seed
    ELSE IF NonEmptyStr(record.private_key) THEN record.private_key
    ELSE None

\* HTTPException(status_code, detail)
RaiseHTTP(status_code, detail) ==
    [raised |-> TRUE, out_status |-> status_code, out_detail |-> detail,
     out_seed |-> "", out_address |-> ""]

\* WalletDetails(seed, address)
WalletDetails(seed, address) ==
    [raised |-> FALSE, out_status |-> 0, out_detail |-> "none",
     out_seed |-> seed, out_address |-> address]

\* an extraction that resolves the address before it looks for a secret
extract_wallet_address_first(record, error_detail, status_code) ==
    LET secret == FirstSecret(record)
        address == resolve_classic_address(record).ret IN
    IF ~NonEmptyStr(address)
    THEN RaiseHTTP(status_code, "Could not derive wallet address")
    ELSE IF ~NonEmptyStr(secret)
    THEN RaiseHTTP(status_code, error_detail)
    ELSE WalletDetails(secret.v, address.v)

\* extract_wallet
extract_wallet(record, error_detail, status_code) ==
    LET secret == FirstSecret(record)
        address == resolve_classic_address(record).ret IN
    IF ~NonEmptyStr(secret)
    THEN RaiseHTTP(status_code, error_detail)
    ELSE IF ~NonEmptyStr(address)
    THEN RaiseHTTP(status_code, "Could not derive wallet address")
    ELSE WalletDetails(secret.v, address.v)

CallResolve ==
    /\ wallet.call = "none"
    /\ LET r == resolve_classic_address(wallet.record) IN
        wallet' = [wallet EXCEPT !.call = "resolve", !.ret = r.ret,
                                 !.derived = r.derived]
    /\ UNCHANGED <<balance, amountMinor, amountNull, ledger, payouts, moves,
                   expenses, req, nreq, nextTx, net, hasSubmitAndWait, price,
                   amounts, conv, lifetime_donations, donation, laterVars>>

CallExtract ==
    /\ wallet.call = "none"
    /\ \E error_detail \in ErrorDetails, status_code \in StatusCodes :
        LET w == extract_wallet(wallet.record, error_detail, status_code) IN
        wallet' = [wallet EXCEPT !.call = "extract",
                                 !.error_detail = error_detail,
                                 !.status_code = status_code,
                                 !.raised = w.raised,
                                 !.out_status = w.out_status,
                                 !.out_detail = w.out_detail,
                                 !.out_seed = w.out_seed,
                                 !.out_address = w.out_address]
    /\ UNCHANGED <<balance, amountMinor, amountNull, ledger, payouts, moves,
                   expenses, req, nreq, nextTx, net, hasSubmitAndWait, price,
                   amounts, conv, lifetime_donations, donation, laterVars>>

InitWallet ==
    /\ InitSettled
    /\ price = PriceMills
    /\ amounts = Amounts
    /\ conv = IdleConv
    /\ lifetime_donations = [n \in Accounts |-> 0]
    /\ donation = [p \in Procs |-> IdleDonation]
    /\ \E record \in WalletRecords : wallet = [IdleWallet EXCEPT !.record = record]

NextWallet == CallResolve \/ CallExtract

SpecWallet == InitWallet /\ [][NextWallet]_vars

\* ------------------------------------------------------- wallet link spec
\* strings are sequences of characters; the path parameter recipient_id and
\* the body's address are arbitrary strings
LinkRecipientIds == {<<"a">>, <<"a", ":">>, <<"b">>}

LinkAddresses == {<<"r">>, <<":", "r">>, <<"s">>}

\* str(bucket)
BucketStr(bucket) == IF bucket = 0 THEN "0" ELSE IF bucket = 1 THEN "1" ELSE "2"

\* int(time.time() // 300)
Bucket(now) == now \div BUCKET_SECONDS

\* hmac.new(SECRET_KEY.encode(), message.encode(), hashlib.sha256).hexdigest():
\* a keyed digest, different for different messages
hmac_sha256(key, message) == <<key>> \o message

\* make_challenge at time now: f"{message}:{mac}"; the digest has a fixed
\* length and no colon, so the string determines the message and the mac
make_challenge(recipient_id, address, now) ==
    LET message == <<"link", ":">> \o recipient_id \o <<":">> \o address
                   \o <<":", BucketStr(Bucket(now))>> IN
    [message |-> message, mac |-> hmac_sha256(SECRET_KEY, message)]

\* verify_challenge: hmac.compare_digest(signature, make_challenge(...))
verify_challenge(signature, recipient_id, address, now) ==
    signature = make_challenge(recipient_id, address, now)

\* challenge + "tamper"
Tamper(challenge) == [challenge EXCEPT !.mac = Append(@, "tamper")]

\* time passes
LinkTick ==
    /\ link.now + TickSeconds <= MaxTime
    /\ link' = [link EXCEPT !.now = @ + TickSeconds]
    /\ UNCHANGED <<settleVars, conv, lifetime_donations, donation, wallet,
                   resp, face, faceapp, acct, vc>>

\* wallet_link_start
wallet_link_start ==
    /\ Cardinality(link.issued) < MaxIssued
    /\ \E recipient_id \in LinkRecipientIds, address \in LinkAddresses :
        link' = [link EXCEPT !.issued = @ \cup
                    {[recipient_id |-> recipient_id, address |-> address,
                      bucket |-> Bucket(link.now),
                      challenge |-> make_challenge(recipient_id, address, link.now)]}]
    /\ UNCHANGED <<settleVars, conv, lifetime_donations, donation, wallet,
                   resp, face, faceapp, acct, vc>>

\* wallet_link_confirm with a signature the client holds: a challenge it was
\* issued, as it is or altered
wallet_link_confirm ==
    /\ link.nconfirm < MaxConfirms
    /\ \E recipient_id \in LinkRecipientIds, address \in LinkAddresses,
          i \in link.issued, tampered \in BOOLEAN :
        LET signature == IF tampered THEN Tamper(i.challenge) ELSE i.challenge
            ok == verify_challenge(signature, recipient_id, address, link.now) IN
        link' = [link EXCEPT
            !.nconfirm = @ + 1,
            !.wallets = IF ok
                        THEN @ \cup {[owner_account_id |-> recipient_id,
                                      classic_address |-> address]}
                        ELSE @,
            !.confirm = [pc |-> "done", signature |-> signature,
                         recipient_id |-> recipient_id, address |-> address,
                         bucket |-> Bucket(link.now), tampered |-> tampered,
                         status |-> IF ok THEN 200 ELSE 401, stored |-> ok]]
    /\ UNCHANGED <<settleVars, conv, lifetime_donations, donation, wallet,
                   resp, face, faceapp, acct, vc>>

InitLink ==
    /\ InitSettled
    /\ price = PriceMills
    /\ amounts = Amounts
    /\ conv = IdleConv
    /\ lifetime_donations = [n \in Accounts |-> 0]
    /\ donation = [p \in Procs |-> IdleDonation]
    /\ wallet = IdleWallet

NextLink == LinkTick \/ wallet_link_start \/ wallet_link_confirm

SpecLink == InitLink /\ [][NextLink]_vars

\* --------------------------------------------- account and recipient reads
\* the wallet columns a stored row may or may not hold a value in
WalletColumns == {"public_key", "private_key", "seed", "address"}

\* rows of the accounts table: create_account always stores a password hash
AccountRows ==
    {{"account_id", "password_hash"} \cup w \cup n :
        w \in SUBSET WalletColumns, n \in SUBSET {"goal"}}

\* rows of the recipients table
RecipientRows ==
    {{"recipient_id", "ngo_id"} \cup w \cup n :
        w \in SUBSET WalletColumns, n \in SUBSET {"name"}}

\* _sanitize_account_response: pops password_hash and private_key, sets goal,
\* lifetime_donations and description
_sanitize_account_response(acc) ==
    (acc \ {"password_hash", "private_key"})
        \cup {"goal", "lifetime_donations", "description"}

\* _sanitize_recipient_item: pops private_key and seed
_sanitize_recipient_item(item) == item \ {"private_key", "seed"}

\* the lazy backfill of get_current_account on the account dict it returns;
\* created = FALSE is create_new_wallet raising
Backfill(account, created) ==
    LET a1 == IF ("public_key" \notin account \/ "private_key" \notin account)
                 /\ created
              THEN account \cup {"public_key", "private_key", "seed"}
              ELSE account IN
    IF "address" \notin a1 /\ "public_key" \in a1
    THEN a1 \cup {"address"}
    ELSE a1

RespUnchanged ==
    UNCHANGED <<settleVars, conv, lifetime_donations, donation, wallet,
                link, face, faceapp, acct, vc>>

\* GET /accounts/me
AccountsMe ==
    /\ resp.endpoint = "none"
    /\ \E row \in AccountRows, created \in BOOLEAN :
        resp' = [endpoint |-> "GET /accounts/me", row |-> row,
                 body |-> _sanitize_account_response(Backfill(row, created))]
    /\ RespUnchanged

\* GET /accounts/recipients: the selected rows with a balance key added
AccountsListRecipients ==
    /\ resp.endpoint = "none"
    /\ \E row \in RecipientRows :
        resp' = [endpoint |-> "GET /accounts/recipients", row |-> row,
                 body |-> row \cup {"balance"}]
    /\ RespUnchanged

\* GET /ngo/recipients of api/src/routers/recipients.py
NgoListRecipients ==
    /\ resp.endpoint = "none"
    /\ \E row \in RecipientRows :
        resp' = [endpoint |-> "GET /ngo/recipients", row |-> row,
                 body |-> _sanitize_recipient_item(row)]
    /\ RespUnchanged

\* GET /ngo/recipients/{id} of api/src/routers/recipients.py
NgoGetRecipient ==
    /\ resp.endpoint = "none"
    /\ \E row \in RecipientRows :
        resp' = [endpoint |-> "GET /ngo/recipients/{id}", row |-> row,
                 body |-> _sanitize_recipient_item(row)]
    /\ RespUnchanged

\* GET /ngo/recipients of src/routers/recipients.py: pops private_key only
LegacyNgoListRecipients ==
    /\ resp.endpoint = "none"
    /\ \E row \in RecipientRows :
        resp' = [endpoint |-> "legacy GET /ngo/recipients", row |-> row,
                 body |-> row \ {"private_key"}]
    /\ RespUnchanged

\* GET /ngo/recipients/{id} of src/routers/recipients.py: the stored row
LegacyNgoGetRecipient ==
    /\ resp.endpoint = "none"
    /\ \E row \in RecipientRows :
        resp' = [endpoint |-> "legacy GET /ngo/recipients/{id}", row |-> row,
                 body |-> row]
    /\ RespUnchanged

InitResp == InitLink

NextResp ==
    \/ AccountsMe
    \/ AccountsListRecipients
    \/ NgoListRecipients
    \/ NgoGetRecipient
    \/ LegacyNgoListRecipients
    \/ LegacyNgoGetRecipient

SpecResp == InitResp /\ [][NextResp]_vars

\* ------------------------------------------------------------- face maps
\* the session_id form field (face_enroll makes a fresh one when it is absent)
Sessions == {"s1", "s2"}

\* the name form field of face_promote
FaceNames == {"alice", "bob", "sam", "nobody"}

\* the recipients rows with a given name: two recipients are called sam
RecipientsNamed(name) ==
    IF name = "alice" THEN {"r1"}
    ELSE IF name = "bob" THEN {"r2"}
    ELSE IF name = "sam" THEN {"r3", "r4"}
    ELSE {}

FaceUnchanged ==
    UNCHANGED <<settleVars, conv, lifetime_donations, donation, wallet,
                link, resp, faceapp, acct, vc>>

\* face_enroll with faces detected: put_item inserts a pending row with a
\* fresh face_id under the session_id it was given
face_enroll ==
    /\ face.nextFace <= MaxFaces
    /\ \E session_id \in Sessions :
        face' = [face EXCEPT
            !.pending = @ \cup {[face_id |-> face.nextFace, session_id |-> session_id]},
            !.nextFace = @ + 1]
    /\ FaceUnchanged

\* the answer of face_promote when it raises
PromoteRaise(session_id, name, status, detail, had) ==
    [face EXCEPT
        !.npromote = @ + 1,
        !.last = [pc |-> "done", session_id |-> session_id, name |-> name,
                  status |-> status, detail |-> detail, face_id |-> 0,
                  recipient_id |-> "none", had |-> had]]

\* face_promote: a coroutine without an await, so it runs to its end before
\* the event loop starts another handler
face_promote ==
    /\ face.npromote < MaxPromotes
    /\ \E session_id \in Sessions, name \in FaceNames :
        LET items == {row \in face.pending : row.session_id = session_id}
            accounts == RecipientsNamed(name) IN
        IF items = {}
        THEN face' = PromoteRaise(session_id, name, 404, "pending_not_found", FALSE)
        ELSE IF accounts = {}
        THEN face' = PromoteRaise(session_id, name, 404, "account_not_found", FALSE)
        ELSE IF Cardinality(accounts) > 1
        THEN face' = PromoteRaise(session_id, name, 409, "multiple_accounts", FALSE)
        ELSE
            \E row \in items, account \in accounts :
                IF \E m \in face.maps : m.recipient_id = account
                THEN face' = PromoteRaise(session_id, name, 409, "face_map_exists", TRUE)
                ELSE face' = [face EXCEPT
                        !.npromote = @ + 1,
                        !.verified = @ \cup {account},
                        !.maps = @ \cup {[face_id |-> row.face_id,
                                          session_id |-> row.session_id,
                                          recipient_id |-> account]},
                        !.pending = {r \in @ : r.face_id # row.face_id},
                        !.last = [pc |-> "done", session_id |-> session_id,
                                  name |-> name, status |-> 200, detail |-> "ok",
                                  face_id |-> row.face_id,
                                  recipient_id |-> account, had |-> FALSE]]
    /\ FaceUnchanged

InitFace == InitLink

NextFace == face_enroll \/ face_promote

SpecFace == InitFace /\ [][NextFace]_vars

\* ---------------------------------------------------------- get_face_app
FaceAppUnchanged ==
    UNCHANGED <<settleVars, conv, lifetime_donations, donation, wallet,
                link, resp, face, acct, vc>>

\* a second check that never finds the handle
AlreadyInitialized_never(face_app) == FALSE

\* "if _FaceAppSingleton.face_app is not None" under the lock
AlreadyInitialized(face_app) == face_app # 0

\* a thread calls get_face_app
GetFaceAppCall(p) ==
    /\ faceapp.t[p].pc \in {"idle", "done"}
    /\ faceapp.ncalls < MaxCalls
    /\ faceapp' = [faceapp EXCEPT
            !.ncalls = @ + 1,
            !.t[p] = [pc |-> "check", entry |-> faceapp.face_app, ret |-> 0,
                      built |-> FALSE]]
    /\ FaceAppUnchanged

\* the check outside the lock
GetFaceAppCheck(p) ==
    /\ faceapp.t[p].pc = "check"
    /\ faceapp' = IF faceapp.face_app # 0
                  THEN [faceapp EXCEPT !.t[p].pc = "done",
                                       !.t[p].ret = faceapp.face_app]
                  ELSE [faceapp EXCEPT !.t[p].pc = "acquire"]
    /\ FaceAppUnchanged

\* with face_lock: blocks until the lock is free
GetFaceAppAcquire(p) ==
    /\ faceapp.t[p].pc = "acquire"
    /\ faceapp.lock = 0
    /\ faceapp' = [faceapp EXCEPT !.lock = p, !.t[p].pc = "locked"]
    /\ FaceAppUnchanged

\* the check under the lock; leaving the with block releases the lock
GetFaceAppRecheck(p) ==
    /\ faceapp.t[p].pc = "locked"
    /\ faceapp' = IF AlreadyInitialized(faceapp.face_app)
                  THEN [faceapp EXCEPT !.lock = 0, !.t[p].pc = "done",
                                       !.t[p].ret = faceapp.face_app]
                  ELSE [faceapp EXCEPT !.t[p].pc = "init"]
    /\ FaceAppUnchanged

\* the constructor attempts: ok is some FaceAnalysis being built and prepared
\* with a detection model; otherwise None is stored and returned
GetFaceAppInit(p) ==
    /\ faceapp.t[p].pc = "init"
    /\ \E ok \in BOOLEAN :
        faceapp' = IF ok
            THEN [faceapp EXCEPT !.face_app = faceapp.instances + 1,
                                 !.instances = @ + 1,
                                 !.FACE_AVAILABLE = TRUE,
                                 !.lock = 0,
                                 !.t[p].pc = "done",
                                 !.t[p].ret = faceapp.instances + 1,
                                 !.t[p].built = TRUE]
            ELSE [faceapp EXCEPT !.face_app = 0,
                                 !.FACE_AVAILABLE = FALSE,
                                 !.lock = 0,
                                 !.t[p].pc = "done",
                                 !.t[p].ret = 0]
    /\ FaceAppUnchanged

InitFaceApp == InitLink

NextFaceApp ==
    \E p \in Procs :
        \/ GetFaceAppCall(p)
        \/ GetFaceAppCheck(p)
        \/ GetFaceAppAcquire(p)
        \/ GetFaceAppRecheck(p)
        \/ GetFaceAppInit(p)

SpecFaceApp == InitFaceApp /\ [][NextFaceApp]_vars

\* ------------------------------------------- sufficiency check, then send
\* the drops a wallet may hold: nothing, the drops around one and two cents'
\* worth at the test and default prices, and half an XRP
WalletDrops ==
    {0, 3215, 3216, 4999, 5000, 5001, FundDrops - 1, FundDrops, FundDrops + 1,
     9999, 10000, 500000}

\* the positive amounts a transfer is asked for (mills)
EnsureAmounts == (1..MaxUsdMills) \cup {1000}

\* ensure_balance on a wallet holding B drops and, when it passes,
\* wallet_to_wallet_send's drops_amount = usd_to_xrp_drops(amount_usd)
CallEnsureThenSend ==
    /\ \E B \in WalletDrops, amount \in EnsureAmounts :
        LET outcome == ensure_balance(TRUE, B, amount) IN
        conv' = [IdleConv EXCEPT !.call = "ensure_balance",
                                 !.dropsIn = B,
                                 !.usd = amount,
                                 !.back = xrp_drops_to_usd(B),
                                 !.rejected = (outcome # "ok"),
                                 !.drops = IF outcome = "ok"
                                           THEN usd_to_xrp_drops(amount)
                                           ELSE 0]
    /\ UNCHANGED <<settleVars, lifetime_donations, donation, wallet, laterVars>>

NextEnsure == CallEnsureThenSend

SpecEnsure == InitConv /\ [][NextEnsure]_vars

\* ------------------------------------------------- wallet columns of rows
AcctUnchanged ==
    UNCHANGED <<settleVars, conv, lifetime_donations, donation, wallet,
                link, resp, face, faceapp, vc>>

\* derive_classic_address of xrpl-py: the address of a well-formed key; the
\* wrapper derive_address_from_public_key answers None when it raises
derive_classic_address(public_key) ==
    IF public_key > 0 THEN <<"classic", public_key>> ELSE <<>>

\* the columns create_account and create_recipient store for a new wallet
NewWalletRow(w) ==
    [exists |-> TRUE, public_key |-> w, private_key |-> w, seed |-> w,
     address |-> derive_classic_address(w)]

\* create_account: Wallet.create(), the derived address, one insert
create_account ==
    /\ ~acct.rows["new_account"].exists
    /\ acct.nextWallet <= MaxWallets
    /\ acct' = [acct EXCEPT !.rows["new_account"] = NewWalletRow(acct.nextWallet),
                            !.nextWallet = @ + 1]
    /\ AcctUnchanged

\* create_recipient: the same for a recipients row
create_recipient ==
    /\ ~acct.rows["new_recipient"].exists
    /\ acct.nextWallet <= MaxWallets
    /\ acct' = [acct EXCEPT !.rows["new_recipient"] = NewWalletRow(acct.nextWallet),
                            !.nextWallet = @ + 1]
    /\ AcctUnchanged

\* the accounts rows a token may name
AccountIds == {"legacy_account", "new_account"}

\* get_current_account of api/src/routers/accounts.py up to its update: the
\* row read and the backfill of the local dict; created = FALSE is
\* create_new_wallet raising
MeRead(p) ==
    /\ acct.t[p].pc \in {"idle", "done"}
    /\ acct.deployment \in {"none", "api"}
    /\ acct.ncalls < MaxMeCalls
    /\ acct.nextWallet <= MaxWallets
    /\ \E id \in AccountIds, created \in BOOLEAN :
        /\ acct.rows[id].exists
        /\ LET a0 == acct.rows[id]
               w == acct.nextWallet
               fill == (a0.public_key = 0 \/ a0.private_key = 0) /\ created
               a1 == IF fill
                     THEN [a0 EXCEPT !.public_key = w, !.private_key = w, !.seed = w]
                     ELSE a0
               derive == a1.address = <<>> /\ a1.public_key # 0
               a2 == IF derive
                     THEN [a1 EXCEPT !.address = derive_classic_address(a1.public_key)]
                     ELSE a1 IN
           acct' = [acct EXCEPT
                !.ncalls = @ + 1,
                !.deployment = "api",
                !.nextWallet = IF fill THEN @ + 1 ELSE @,
                !.t[p] = [pc |-> IF fill \/ derive THEN "update" ELSE "done",
                          id |-> id, account |-> a2]]
    /\ AcctUnchanged

\* its single update of public_key, private_key, address and seed; a failed
\* update is ignored
MeUpdate(p) ==
    /\ acct.t[p].pc = "update"
    /\ \E ok \in BOOLEAN :
        acct' = [acct EXCEPT
            !.rows[acct.t[p].id] = IF ok THEN acct.t[p].account ELSE @,
            !.t[p].pc = "done"]
    /\ AcctUnchanged

\* get_current_account of src/routers/accounts.py up to its first update;
\* when create_new_wallet raises it falls back to placeholder keys
LegacyMeRead(p) ==
    /\ acct.t[p].pc \in {"idle", "done"}
    /\ acct.deployment \in {"none", "legacy"}
    /\ acct.ncalls < MaxMeCalls
    /\ acct.nextWallet <= MaxWallets
    /\ \E id \in AccountIds, created \in BOOLEAN :
        /\ acct.rows[id].exists
        /\ LET a0 == acct.rows[id]
               w == IF created THEN acct.nextWallet ELSE -1
               fill == a0.public_key = 0 \/ a0.private_key = 0
               a1 == IF fill
                     THEN [a0 EXCEPT !.public_key = w, !.private_key = w]
                     ELSE a0
               addr == derive_classic_address(a1.public_key)
               derive == a1.address = <<>> /\ a1.public_key # 0 /\ addr # <<>> IN
           acct' = [acct EXCEPT
                !.ncalls = @ + 1,
                !.deployment = "legacy",
                !.nextWallet = IF fill /\ created THEN @ + 1 ELSE @,
                !.t[p] = [pc |-> IF fill THEN "legacy_keys"
                                 ELSE IF derive THEN "legacy_address"
                                 ELSE "done",
                          id |-> id, account |-> a1]]
    /\ AcctUnchanged

\* "SET public_key = :pub, private_key = :priv"
LegacyMeUpdateKeys(p) ==
    /\ acct.t[p].pc = "legacy_keys"
    /\ LET a == acct.t[p].account
           addr == derive_classic_address(a.public_key)
           derive == a.address = <<>> /\ a.public_key # 0 /\ addr # <<>> IN
       acct' = [acct EXCEPT
            !.rows[acct.t[p].id].public_key = a.public_key,
            !.rows[acct.t[p].id].private_key = a.private_key,
            !.t[p].pc = IF derive THEN "legacy_address" ELSE "done"]
    /\ AcctUnchanged

\* "SET address = :addr" with the address of the local public key
LegacyMeUpdateAddress(p) ==
    /\ acct.t[p].pc = "legacy_address"
    /\ acct' = [acct EXCEPT
            !.rows[acct.t[p].id].address =
                derive_classic_address(acct.t[p].account.public_key),
            !.t[p].pc = "done"]
    /\ AcctUnchanged

InitAcct == InitLink

NextAcct ==
    \/ create_account
    \/ create_recipient
    \/ \E p \in Procs :
        \/ MeRead(p)
        \/ MeUpdate(p)
        \/ LegacyMeRead(p)
        \/ LegacyMeUpdateKeys(p)
        \/ LegacyMeUpdateAddress(p)

SpecAcct == InitAcct /\ [][NextAcct]_vars

\* ------------------------------------------- api/src/routers/credentials.py

VcUnchanged ==
    UNCHANGED <<settleVars, conv, lifetime_donations, donation, wallet,
                link, resp, face, faceapp, acct>>

\* ttl_minutes is an unconstrained int of the request body
TtlMinutes == {-1, 0, 1, 2}

\* HS256Signer.sign: header.payload followed by the HMAC over it under
\* SECRET_KEY
HS256Signer_sign(payload) ==
    [payload |-> payload, sig |-> hmac_sha256(SECRET_KEY, <<payload>>)]

\* a token whose signature was made under another key
Forged(payload) ==
    [payload |-> payload, sig |-> hmac_sha256("other-key", <<payload>>)]

\* verify_vc with the nbf and exp comparisons ahead of the revocation lookup
VerifyAnswer_window_first(token, revocations, now_ts) ==
    IF token.sig # hmac_sha256(SECRET_KEY, <<token.payload>>)
    THEN [status |-> 400, detail |-> "Malformed JWT"]
    ELSE IF now_ts < token.payload.nbf
    THEN [status |-> 401, detail |-> "Not yet valid"]
    ELSE IF now_ts >= token.payload.exp
    THEN [status |-> 401, detail |-> "Expired"]
    ELSE IF token.payload.jti \in revocations
    THEN [status |-> 401, detail |-> "Credential revoked"]
    ELSE [status |-> 200, detail |-> "valid"]

\* the answer of verify_vc: the 401 "Invalid signature" raised inside the
\* try block is caught by its except clause and becomes 400; the revocation
\* lookup comes before the nbf and exp comparisons
VerifyAnswer(token, revocations, now_ts) ==
    IF token.sig # hmac_sha256(SECRET_KEY, <<token.payload>>)
    THEN [status |-> 400, detail |-> "Malformed JWT"]
    ELSE IF token.payload.jti \in revocations
    THEN [status |-> 401, detail |-> "Credential revoked"]
    ELSE IF now_ts < token.payload.nbf
    THEN [status |-> 401, detail |-> "Not yet valid"]
    ELSE IF now_ts >= token.payload.exp
    THEN [status |-> 401, detail |-> "Expired"]
    ELSE [status |-> 200, detail |-> "valid"]

\* time.time() moves on
VcTick ==
    /\ vc.now + VcTickSeconds <= MaxVcTime
    /\ vc' = [vc EXCEPT !.now = vc.now + VcTickSeconds]
    /\ VcUnchanged

\* POST /credentials/issue
issue_vc ==
    /\ vc.nextId <= MaxVcs
    /\ \E ttl_minutes \in TtlMinutes :
          LET iat == vc.now
              payload == [jti |-> vc.nextId, iat |-> iat, nbf |-> iat,
                          exp |-> iat + ttl_minutes * 60]
          IN vc' = [vc EXCEPT
                       !.nextId = vc.nextId + 1,
                       !.tokens = vc.tokens \cup {HS256Signer_sign(payload)},
                       !.creds = Append(vc.creds, "active")]
    /\ VcUnchanged

\* POST /credentials/revoke, first statement: the revocations row is written
\* for whatever credential_id the body names
revoke_vc_put ==
    /\ \E credential_id \in (1..MaxVcs) \ vc.revoking :
          vc' = [vc EXCEPT
                    !.revocations = vc.revocations \cup {credential_id},
                    !.revoking = vc.revoking \cup {credential_id}]
    /\ VcUnchanged

\* POST /credentials/revoke, the rest: the credentials row, when there is
\* one, gets status "revoked" (failures ignored) and {"ok": True} is returned
revoke_vc_return ==
    /\ \E credential_id \in vc.revoking :
          vc' = [vc EXCEPT
                    !.creds = [i \in DOMAIN vc.creds |->
                                  IF i = credential_id THEN "revoked"
                                  ELSE vc.creds[i]],
                    !.revoking = vc.revoking \ {credential_id},
                    !.completed = vc.completed \cup {credential_id}]
    /\ VcUnchanged

\* POST /credentials/verify with an issued token or a forgery of one
verify_vc ==
    /\ vc.nverify < MaxVerifies
    /\ \E t \in vc.tokens, forged \in BOOLEAN :
          LET token == IF forged THEN Forged(t.payload) ELSE t
              answer == VerifyAnswer(token, vc.revocations, vc.now)
          IN vc' = [vc EXCEPT
                       !.nverify = vc.nverify + 1,
                       !.last = [jti |-> token.payload.jti,
                                 signed |-> ~forged,
                                 status |-> answer.status,
                                 detail |-> answer.detail]]
    /\ VcUnchanged

InitVc == InitLink

NextVc ==
    \/ VcTick
    \/ issue_vc
    \/ revoke_vc_put
    \/ revoke_vc_return
    \/ verify_vc

SpecVc == InitVc /\ [][NextVc]_vars

\* ================================================================ claims
RouterHandlers == {"recipients", "accounts", "redeem"}

\* C1: after every completed Deposit, Withdraw or Redeem the recipient's
\* stored off-ledger balance is >= 0.
C1_BalanceNonNegative == \A r \in Recipients : balance[r] >= 0

\* C2: a Withdraw or Redeem whose amount exceeds the recipient's recorded
\* off-ledger balance makes no Ledger Gateway call (no balance query, no
\* transfer), writes no balance, and ends rejected with InsufficientBalance.
C2_OffLedgerCheckFirst ==
    \A p \in Procs :
        LET q == req[p] IN
        (/\ q.handler \in RouterHandlers
         /\ q.op \in {"withdraw", "redeem"}
         /\ q.reads > 0
         /\ OwnerOf(q.rid) = q.caller
         /\ q.usd > q.stored)
        => /\ q.queries = 0
           /\ q.submits = 0
           /\ q.writes = 0
           /\ q.pc = "done" => (q.status = 400 /\ q.detail = "insufficient_balance")

\* C3: no handler writes a recipient balance or appends a record unless a
\* ledger transfer submitted in the same request has succeeded before.
C3_WriteOnlyAfterTransfer ==
    \A p \in Procs :
        LET q == req[p] IN
        (q.writes > 0 \/ q.records > 0) => (q.submits > 0 /\ q.tx # 0)

\* the ledger refused or lost the request's submission: it raised, or came
\* back without a hash, or (native submit_and_wait) was never validated
TransferFailed(q) ==
    \/ q.gw \in {"raise", "nohash"}
    \/ q.gw = "never" /\ (hasSubmitAndWait \/ q.handler = "redeem")

LedgerFailureDetails ==
    {"xrpl_submission_failed", "xrpl_no_hash", "wallet_transfer_failed",
     "xrpl_transfer_failed"}

\* C4: when the ledger transfer of a deposit, withdraw or redeem fails, the
\* request writes no balance and no payout or movement record, holds no
\* transaction hash, and ends with a ledger-submission failure (HTTP 502 from
\* _submit_transaction, HTTP 500 "XRPL transfer failed" from redeem).
C4_FailedTransferNoWrite ==
    \A p \in Procs :
        LET q == req[p] IN
        (q.handler \in RouterHandlers /\ q.submits > 0 /\ TransferFailed(q))
        => /\ q.pc = "done"
           /\ q.writes = 0
           /\ q.records = 0
           /\ q.tx = 0
           /\ q.status \in {500, 502}
           /\ q.detail \in LedgerFailureDetails

C4_Witness ==
    \E p \in Procs :
        LET q == req[p] IN
        /\ q.handler = "recipients" /\ q.op = "deposit"
        /\ q.gw = "raise" /\ q.pc = "done" /\ q.status = 502
        /\ balance[q.rid] = q.stored

\* C5: a successful Deposit of a on stored balance b writes the stored balance
\* (to b + a), creates a Settlement Record and a Movement Record, and returns
\* previous_balance = b, new_balance = b + a and a non-empty transaction
\* reference.
C5_DepositWritesRecords ==
    \A p \in Procs :
        LET q == req[p] IN
        (q.handler \in {"recipients", "accounts"} /\ q.op = "deposit"
            /\ q.pc = "done" /\ q.status = 200)
        => /\ q.writes = 1
           /\ q.records = 2
           /\ q.tx # 0
           /\ q.prev = q.stored
           /\ q.new = q.stored + q.usd

\* the deposit has made its ensure_balance query
EnsureDone(q) ==
    IF q.handler = "recipients" THEN q.queries >= 1 ELSE q.queries >= 2

\* C6: a Deposit goes on to submit its transfer exactly when the NGO wallet's
\* USD value was fetched and is at least the amount (equal is enough);
\* otherwise it ends with HTTP 400, no submission and no balance write.
C6_DepositNeedsFundedWallet ==
    \A p \in Procs :
        LET q == req[p] IN
        (q.handler \in {"recipients", "accounts"} /\ q.op = "deposit"
            /\ EnsureDone(q))
        => IF q.seen >= q.usd
           THEN q.pc \in {"send", "write"} \/ q.submits > 0
           ELSE /\ q.pc = "done"
                /\ q.status = 400
                /\ q.detail \in {"insufficient_wallet", "wallet_unavailable"}
                /\ q.submits = 0
                /\ q.writes = 0

C6_Witness ==
    \E p1, p2 \in Procs :
        /\ req[p1].handler = "recipients" /\ req[p1].op = "deposit"
        /\ req[p1].pc = "done" /\ req[p1].detail = "insufficient_wallet"
        /\ req[p1].seen >= 0 /\ req[p1].seen < req[p1].usd
        /\ balance[req[p1].rid] = req[p1].stored
        /\ req[p2].handler = "accounts" /\ req[p2].op = "deposit"
        /\ req[p2].seen = req[p2].usd /\ req[p2].status = 200

\* C7: a Deposit or Withdraw with amount <= 0 ends at once with a validation
\* error, before any read of the recipient or its balance, any balance write
\* and any Ledger Gateway call.
C7_InvalidAmountRejectedFirst ==
    \A p \in Procs :
        LET q == req[p] IN
        (q.handler \in {"recipients", "accounts"} /\ q.amount <= 0)
        => /\ q.pc = "done"
           /\ q.status = 422
           /\ q.detail = "invalid_amount"
           /\ q.reads = 0
           /\ q.queries = 0
           /\ q.submits = 0
           /\ q.writes = 0

C7_Witness ==
    \E p1, p2 \in Procs :
        /\ req[p1].handler = "recipients" /\ req[p1].op = "deposit"
        /\ req[p1].amount = 0 /\ req[p1].status = 422
        /\ req[p2].handler = "accounts" /\ req[p2].op = "withdraw"
        /\ req[p2].amount < 0 /\ req[p2].status = 422

\* C8: a submission that returns no transaction hash is a failed transfer: the
\* request writes no balance and no record and does not answer success.
C8_NoHashNoWrite ==
    \A p \in Procs :
        LET q == req[p] IN
        q.gw = "nohash"
        => /\ q.writes = 0
           /\ q.records = 0
           /\ q.pc = "done" => q.status # 200

\* C9: one request submits its ledger transfer at most once, whether the
\* submission raised, returned no hash, or was not validated by the deadline.
C9_AtMostOneSubmission ==
    \A p \in Procs : req[p].submits <= 1

C9_Witness ==
    \E p1, p2 \in Procs :
        /\ req[p1].gw = "never" /\ ~hasSubmitAndWait
        /\ req[p1].polls = PollLimit /\ req[p1].submits = 1
        /\ req[p2].gw = "raise" /\ req[p2].pc = "done" /\ req[p2].submits = 1

\* C10: the balance write of a Withdraw stores the balance the handler read
\* minus the amount, whatever another request has stored in between, so two
\* concurrent Withdraws that both passed the check lose one update.
C10_WriteOverwrites ==
    [][\A p \in Procs :
        LET q == req[p] IN
        (q.handler = "recipients" /\ q.op = "withdraw" /\ q.pc = "write"
            /\ req'[p].pc = "done")
        => balance'[q.rid] = q.cur - q.amount
      ]_vars

\* both transfers were submitted and succeeded after both requests read the
\* same balance; the stored balance is the later write, not the initial
\* balance minus the sum of the amounts transferred
C10_LostUpdate ==
    \E p1, p2 \in Procs :
        /\ p1 # p2
        /\ req[p1].rid = req[p2].rid
        /\ \A p \in {p1, p2} :
            /\ req[p].handler = "recipients" /\ req[p].op = "withdraw"
            /\ req[p].pc = "done" /\ req[p].status = 200
            /\ req[p].submits = 1 /\ req[p].tx # 0
        /\ req[p1].cur = req[p2].cur
        /\ balance[req[p1].rid] = req[p1].cur - req[p1].amount
        /\ balance[req[p1].rid] # net[req[p1].rid]
        /\ net[req[p1].rid] = req[p1].cur - req[p1].amount - req[p2].amount

\* C11: the accounts router applies its balance update under optimistic
\* concurrency: a deposit or withdraw it answers with success has written the
\* stored balance (a conflicting one would have been refused, not answered 200).
C11_AccountsWriteApplied ==
    \A p \in Procs :
        LET q == req[p] IN
        (q.handler = "accounts" /\ q.pc = "done" /\ q.status = 200)
        => q.writes = 1

\* C12: usd_to_xrp_drops truncates and never rounds up: for usd > 0 the drops
\* are the largest whole number of drops worth at most usd at the price
\* ($1.00 at $2 per XRP gives exactly 500000); usd <= 0 raises an error.
C12_UsdToDropsTruncates ==
    conv.call = "usd_to_xrp_drops"
    => IF conv.usd <= 0
       THEN conv.drops = ValueError
       ELSE /\ conv.drops >= 0
            /\ conv.drops * price <= conv.usd * DROPS_PER_XRP
            /\ (conv.drops + 1) * price > conv.usd * DROPS_PER_XRP
            /\ (conv.usd = 1000 /\ price = 2000) => conv.drops = 500000

\* a conversion that had to truncate, at the default price
C12_Witness ==
    /\ conv.call = "usd_to_xrp_drops"
    /\ price = PriceMills
    /\ conv.usd = 2 * MillsPerCent
    /\ conv.drops = 6430
    /\ conv.drops * price < conv.usd * DROPS_PER_XRP

\* the last call converted back the drops that usd_to_xrp_drops returned for
\* conv.usd > 0
RoundTrip ==
    /\ conv.call = "xrp_drops_to_usd"
    /\ conv.usd > 0
    /\ conv.dropsIn = conv.drops

\* conv.usd / price is a whole number of drops
ExactInDrops == conv.drops * price = conv.usd * DROPS_PER_XRP

\* C13 as stated: xrp_drops_to_usd truncates to 2 decimal places, so the round
\* trip xrp_drops_to_usd(usd_to_xrp_drops(usd)) is <= usd, and equal to usd when
\* usd / price is exactly representable in drops; negative drops raise an error.
C13_RoundTripExact ==
    /\ (conv.call = "xrp_drops_to_usd" /\ conv.dropsIn < 0)
            => conv.back = ValueError
    /\ RoundTrip => /\ conv.back <= conv.usd
                    /\ ExactInDrops => conv.back = conv.usd

\* C13 amended: xrp_drops_to_usd returns the largest whole number of cents
\* worth at most the drops at the price; the round trip is <= usd, and equal to
\* usd when usd / price is exactly representable in drops and usd is a whole
\* number of cents; negative drops raise an error.
C13_RoundTripNeverGains ==
    /\ conv.call = "xrp_drops_to_usd"
        => IF conv.dropsIn < 0
           THEN conv.back = ValueError
           ELSE /\ conv.back >= 0
                /\ conv.back % MillsPerCent = 0
                /\ conv.back * DROPS_PER_XRP <= conv.dropsIn * price
                /\ (conv.back + MillsPerCent) * DROPS_PER_XRP > conv.dropsIn * price
    /\ RoundTrip => /\ conv.back <= conv.usd
                    /\ (ExactInDrops /\ conv.usd % MillsPerCent = 0)
                            => conv.back = conv.usd

\* a round trip that lost value, and (in another behaviour) the exact one of
\* the tests; the witness is the lossy one
C13_Witness ==
    /\ RoundTrip
    /\ price = PriceMills
    /\ conv.usd = 2 * MillsPerCent
    /\ conv.back = MillsPerCent

\* C14: every quote for a positive amount_minor of the pair XRP to USD has
\* deliver_min = floor(0.99 * amount_minor), send_max =
\* floor(amount_minor / 100 / price * 1,000,000 * 1.01) and
\* deliver_min <= amount_minor <= send_max; any other pair and any
\* non-positive amount is rejected.
C14_QuoteBounds ==
    conv.call \in {"get_quote", "app_get_quote"}
    => IF conv.from_currency # "XRP" \/ conv.to_currency # "USD"
            \/ conv.amount_minor <= 0
       THEN conv.rejected
       ELSE /\ ~conv.rejected
            /\ conv.deliver_min <= conv.amount_minor
            /\ conv.amount_minor <= conv.send_max
            /\ conv.deliver_min * 100 <= conv.amount_minor * 99
            /\ (conv.deliver_min + 1) * 100 > conv.amount_minor * 99
            /\ conv.send_max * price
                    <= conv.amount_minor * 101 * ((MillsPerCent * DROPS_PER_XRP) \div 100)
            /\ (conv.send_max + 1) * price
                    > conv.amount_minor * 101 * ((MillsPerCent * DROPS_PER_XRP) \div 100)

\* the requested amount cut down to whole cents
WholeCents(a) == a - (a % MillsPerCent)

\* C15: a deposit or withdraw works with the requested amount truncated down
\* to 2 decimal places: a request whose amount truncates to 0.00 is rejected
\* as invalid before any ledger call, and otherwise the amount of the wallet
\* checks and of the transfer, and the difference of the balances it answers,
\* is the truncated amount.
C15_AmountTruncated ==
    \A p \in Procs :
        LET q == req[p] IN
        (q.handler \in {"recipients", "accounts"} /\ q.amount > 0)
        => IF WholeCents(q.amount) = 0
           THEN /\ q.pc = "done"
                /\ q.status \in {400, 422}
                /\ q.detail = "invalid_amount"
                /\ q.queries = 0
                /\ q.submits = 0
           ELSE /\ q.usd = WholeCents(q.amount)
                /\ q.usd <= q.amount
                /\ (q.pc = "done" /\ q.status = 200)
                    => q.new = IF q.op = "deposit"
                               THEN q.prev + WholeCents(q.amount)
                               ELSE q.prev - WholeCents(q.amount)

\* C16: the lifetime_donations counter of every NGO account never decreases,
\* and a call without an NGO id or with amount <= 0 leaves it unchanged.
C16_LifetimeDonationsMonotonic ==
    [][/\ \A n \in Accounts : lifetime_donations'[n] >= lifetime_donations[n]
       /\ \A p \in Procs :
            (donation'[p] # donation[p]
                /\ (donation'[p].ngo_id = "none" \/ donation'[p].amount <= 0))
            => lifetime_donations' = lifetime_donations
      ]_vars

C18_RecordsAppendOnly ==
    [][/\ Len(payouts') >= Len(payouts)
       /\ SubSeq(payouts', 1, Len(payouts)) = payouts
       /\ Len(moves') >= Len(moves)
       /\ SubSeq(moves', 1, Len(moves)) = moves
       /\ \A p \in Procs :
            (/\ req[p].pc # "done"
             /\ req'[p].pc = "done"
             /\ req'[p].op = "redeem"
             /\ req'[p].status = 200)
            => /\ Len(payouts') = Len(payouts) + 1
               /\ Len(moves') = Len(moves) + 1
               /\ payouts'[Len(payouts')].tx # 0
               /\ payouts'[Len(payouts')].tx = moves'[Len(moves')].tx]_vars

\* C19: resolve_classic_address returns the record's stored address whenever
\* it is a non-empty string, without consulting the public key; otherwise the
\* address derived from a non-empty public_key; otherwise None.
C19_ResolvePrefersStoredAddress ==
    wallet.call = "resolve" =>
        LET record == wallet.record IN
        IF record.address.t = "str" /\ record.address.v # ""
        THEN wallet.ret = record.address /\ wallet.derived = 0
        ELSE IF record.public_key.t = "str" /\ record.public_key.v # ""
        THEN /\ wallet.ret = derive_address_from_public_key(record.public_key.v)
             /\ wallet.derived = 1
        ELSE wallet.ret = None /\ wallet.derived = 0

C19_Witness ==
    /\ wallet.call = "resolve"
    /\ wallet.record.address = Str("rExisting")
    /\ wallet.record.public_key = Str("PUB")
    /\ wallet.ret = Str("rExisting")

\* C20: extract_wallet returns the first non-empty string among seed, then
\* private_key, as the secret, with the resolved classic address; with no
\* secret it raises the caller's status_code and error_detail (checked
\* first); with a secret but no resolvable address it raises with detail
\* "Could not derive wallet address".
C20_ExtractWallet ==
    wallet.call = "extract" =>
        LET record == wallet.record
            hasSeed == record.seed.t = "str" /\ record.seed.v # ""
            hasPriv == record.private_key.t = "str" /\ record.private_key.v # ""
            resolved == resolve_classic_address(record).ret IN
        IF ~hasSeed /\ ~hasPriv
        THEN /\ wallet.raised
             /\ wallet.out_status = wallet.status_code
             /\ wallet.out_detail = wallet.error_detail
        ELSE IF resolved = None
        THEN /\ wallet.raised
             /\ wallet.out_status = wallet.status_code
             /\ wallet.out_detail = "Could not derive wallet address"
        ELSE /\ ~wallet.raised
             /\ wallet.out_seed = (IF hasSeed THEN record.seed.v
                                              ELSE record.private_key.v)
             /\ wallet.out_address = resolved.v

C20_Witness ==
    /\ wallet.call = "extract"
    /\ wallet.record.seed = None
    /\ wallet.record.private_key = None
    /\ wallet.record.address = None
    /\ wallet.record.public_key = Str("BAD")
    /\ wallet.status_code = 422
    /\ wallet.raised
    /\ wallet.out_detail = "missing wallet"

\* C21: a wallet-link confirm succeeds only with the unaltered challenge made
\* for the same (recipient_id, address) in the current 300-second bucket: a
\* challenge issued for a different pair or in an earlier bucket, or an
\* altered one, is rejected, and a rejected confirm stores no wallet link.
C21_ChallengeBoundToPair ==
    LET c == link.confirm IN
    c.pc = "done" =>
        /\ c.tampered => c.status = 401
        /\ \A i \in link.issued :
              (/\ c.signature = i.challenge
               /\ \/ i.recipient_id # c.recipient_id
                  \/ i.address # c.address
                  \/ i.bucket # c.bucket)
              => c.status = 401
        /\ c.status = 401 => ~c.stored

\* C22: no response of the account and recipient read endpoints contains
\* wallet signing material (private_key or seed) or a password hash.
C22_NoSecretInResponse ==
    resp.body \cap {"private_key", "seed", "password_hash"} = {}

\* C23: the face-maps table holds at most one face map per recipient; a
\* promote for a recipient that already has a face map is rejected with 409;
\* a successful promote puts the pending row into the face-maps table and
\* leaves no pending row for its session.
C23_OneFaceMapPerRecipient ==
    [][face'.npromote = face.npromote + 1 =>
        LET q == face'.last IN
        /\ \A m1, m2 \in face'.maps :
              m1.recipient_id = m2.recipient_id => m1 = m2
        /\ (\E m \in face.maps : RecipientsNamed(q.name) = {m.recipient_id}
              /\ \E row \in face.pending : row.session_id = q.session_id)
           => q.status = 409
        /\ q.status = 200 =>
              /\ \E m \in face'.maps :
                    m.face_id = q.face_id /\ m.recipient_id = q.recipient_id
              /\ \A row \in face'.pending : row.session_id # q.session_id]_vars

\* C24: under any interleaving of get_face_app callers a handle is stored at
\* most once; a call that begins after a handle was stored returns that
\* instance and constructs none; and at most one thread is inside the
\* initialization at a time.
C24_FaceAppInitializedOnce ==
    /\ faceapp.instances <= 1
    /\ Cardinality({p \in Procs : faceapp.t[p].pc \in {"locked", "init"}}) <= 1
    /\ \A p \in Procs :
        LET c == faceapp.t[p] IN
        (c.pc = "done" /\ c.entry # 0) => (c.ret = c.entry /\ ~c.built)
    /\ \A p \in Procs :
        (faceapp.t[p].pc = "done" /\ faceapp.t[p].ret # 0)
        => faceapp.t[p].ret = faceapp.face_app

C24_Witness ==
    \E p1, p2 \in Procs :
        /\ p1 # p2
        /\ faceapp.t[p1].pc = "done" /\ faceapp.t[p1].built
        /\ faceapp.t[p2].pc = "done" /\ faceapp.t[p2].entry = 0
        /\ ~faceapp.t[p2].built
        /\ faceapp.t[p2].ret = faceapp.face_app
        /\ faceapp.face_app # 0

\* C25: in the financial router's redeem, every request whose ledger transfer
\* succeeded ends with the payout record, the balance decrement and the
\* movement record written; a request for an unsupported currency is
\* rejected before any ledger transfer is submitted.
C25_RedeemCompletesAfterTransfer ==
    \A p \in Procs :
        LET q == req[p] IN
        (q.handler = "redeem" /\ q.pc = "done")
        => /\ q.tx # 0 => (q.status = 200 /\ q.records = 2 /\ q.writes = 1)
           /\ q.currency # "USD" => q.submits = 0

\* C26: after a successful redeem in the monolithic app the recipient's
\* amount_minor equals its previous value minus the redeemed amount_minor.
C26_RedeemStoresDifference ==
    [][\A p \in Procs :
        (/\ req[p].pc = "rwrite"
         /\ req'[p].pc = "done"
         /\ req'[p].status = 200)
        => /\ ~amountNull'[req[p].rid]
           /\ amountMinor'[req[p].rid] = amountMinor[req[p].rid] - req[p].amount]_vars

\* C27: whenever ensure_balance succeeds for a positive amount on a wallet
\* holding B drops, the drops then sent for that amount, computed at the
\* same price, are at most B.
C27_EnsuredSendWithinBalance ==
    (conv.call = "ensure_balance" /\ ~conv.rejected) => conv.drops <= conv.dropsIn

C27_Witness ==
    /\ conv.call = "ensure_balance"
    /\ ~conv.rejected
    /\ price = PriceMills
    /\ conv.dropsIn = FundDrops
    /\ conv.usd = 2 * MillsPerCent
    /\ conv.drops = FundDrops - 1

\* C28: a recipient's stored balance is changed only for a validated ledger
\* transaction: a deposit or withdraw whose submission was not validated by
\* the polling deadline writes no balance.
C28_NoWriteWithoutValidation ==
    \A p \in Procs :
        LET q == req[p] IN
        (q.handler \in {"recipients", "accounts"} /\ q.gw = "never")
        => q.writes = 0

\* C29: for every account and recipient row, a stored non-empty address is
\* the address derived from the row's stored public key.
C29_AddressMatchesPublicKey ==
    \A r \in DOMAIN acct.rows :
        LET row == acct.rows[r] IN
        (row.exists /\ row.address # <<>>)
        => row.address = derive_classic_address(row.public_key)

\* C30: once revoke_vc has returned for a credential id, every later
\* verify_vc of a correctly signed token with that jti answers 401
\* "Credential revoked", whether the token is inside or outside its
\* nbf..exp window; and no step removes a row from the revocations table.
C30_RevokedStaysRevoked ==
    [][ /\ vc.revocations \subseteq vc'.revocations
        /\ vc.completed \subseteq vc'.revocations
        /\ (/\ vc'.nverify > vc.nverify
            /\ vc'.last.signed
            /\ vc'.last.jti \in vc.completed)
           => /\ vc'.last.status = 401
              /\ vc'.last.detail = "Credential revoked" ]_vars

\* a signed token has been refused as revoked after its window had closed
C30_Witness ==
    /\ vc.nverify > 0
    /\ vc.last.signed
    /\ vc.last.jti \in vc.completed
    /\ vc.last.detail = "Credential revoked"
    /\ \E t \in vc.tokens :
          t.payload.jti = vc.last.jti /\ vc.now >= t.payload.exp

====
